---- MODULE Spec2Model ----
(***************************************************************************)
(* Squid controller firmware: protocol v2 frame receiver, command          *)
(* dispatcher and response builder (firmware/controller/src/protocol_v2),  *)
(* and the strobe timer handler with the illumination it switches          *)
(* (firmware/octopi_firmware_v3/main_controller_teensy41/src/functions),   *)
(* and the fixed-length protocol of the TTL-only build                     *)
(* (firmware/controller_ttl_only/src).                                     *)
(*                                                                         *)
(* C arrays are functions on 0..N-1, unsigned integers keep their width,   *)
(* the serial line is a sequence of bytes.                                 *)
(***************************************************************************)
EXTENDS Integers, Naturals, Sequences, FiniteSets, TLC

VARIABLES
    \* static receiver state, protocol_v2.cpp:34-38
    rx_state, rx_buffer, rx_payload_length, rx_payload_received, rx_crc_received,
    \* illumination tracking, protocol_v2.cpp:40-42
    illumination_channel_states, current_led_pattern,
    \* firmware globals written by handle_cmd_reset / read by build_response
    mcu_cmd_execution_in_progress, commanded_movement_in_progress,
    is_homing, is_homing_XY, home_found, is_preparing_for_homing, trigger_mode,
    use_encoder, encoder_pos, tmc_position, commanded_target_position,
    joystick_delta_x, joystick_delta_y, joystick_button_pressed,
    \* SerialUSB: bytes written by the host and not yet read, responses written
    serial_rx, serial_tx,
    \* history: what the host wrote unit by unit, one entry per byte read,
    \* one entry per process_command call, the direct call under test
    units, log, dispatched, call,
    \* the illumination as switched, globals.cpp:128
    illumination_is_on,
    \* camera trigger and strobe, functions.cpp:191-197
    control_strobe, strobe_output_level, strobe_on, strobe_delay,
    illumination_on_time, timestamp_trigger_rising_edge,
    \* micros(), and the history of the illumination: one entry per
    \* turn_on_illumination / turn_off_illumination call
    micros, pulses,
    \* the TTL-only build: its globals, pins, DAC registers, SerialUSB and the
    \* history of its receiver as one record; what the host has written
    ttl, ttl_host

vars == << rx_state, rx_buffer, rx_payload_length, rx_payload_received, rx_crc_received,
           illumination_channel_states, current_led_pattern,
           mcu_cmd_execution_in_progress, commanded_movement_in_progress,
           is_homing, is_homing_XY, home_found, is_preparing_for_homing, trigger_mode,
           use_encoder, encoder_pos, tmc_position, commanded_target_position,
           joystick_delta_x, joystick_delta_y, joystick_button_pressed,
           serial_rx, serial_tx, units, log, dispatched, call,
           illumination_is_on, control_strobe, strobe_output_level, strobe_on,
           strobe_delay, illumination_on_time, timestamp_trigger_rising_edge,
           micros, pulses, ttl, ttl_host >>

\* the TTL-only build and its host
ttlVars == << ttl, ttl_host >>

\* what the strobe timer handler and the illumination functions work on
strobeVars == << illumination_is_on, control_strobe, strobe_output_level, strobe_on,
                 strobe_delay, illumination_on_time, timestamp_trigger_rising_edge,
                 micros, pulses >>

---------------------------------------------------------------------------
(* Packet format, protocol_v2.h *)

PACKET_HEADER_0 == 170

PACKET_HEADER_1 == 187

PACKET_MAX_PAYLOAD == 506

PACKET_OVERHEAD == 6

RX_BUFFER_SIZE == 512

RESPONSE_SIZE == 78

CMD_MOVE_AXIS == 1

CMD_SET_ILLUMINATION == 48

CMD_GET_STATE == 240

CMD_GET_VERSION == 242

CMD_INITIALIZE == 254

CMD_RESET == 255

STATUS_OK == 0

STATUS_REJECTED == 2

ERR_NONE == 0

ERR_INVALID_CMD == 1

ERR_CHECKSUM == 6

ERR_PACKET_TOO_SHORT == 7

AXIS_IDLE == 0

AXIS_MOVING == 1

AXIS_HOMING == 2

MODE_NORMAL == 0

RxStates == {"RX_WAIT_HEADER_0", "RX_WAIT_HEADER_1", "RX_WAIT_LENGTH_0", "RX_WAIT_LENGTH_1",
             "RX_WAIT_PAYLOAD", "RX_WAIT_CRC_0", "RX_WAIT_CRC_1"}

Byte == 0..255

\* axes[0..3] of the response: X, Y, Z, W
Axes == 0..3

\* camera_channel of the strobe loop
Channels == 0..5

\* Arduino pin levels, as the bool arrays hold them
LOW == FALSE

HIGH == TRUE

---------------------------------------------------------------------------
(* Unsigned integer arithmetic *)

RECURSIVE BitXor(_, _)
BitXor(a, b) ==
    IF a = 0 THEN b
    ELSE IF b = 0 THEN a
    ELSE ((a + b) % 2) + 2 * BitXor(a \div 2, b \div 2)

RECURSIVE BitOr(_, _)
BitOr(a, b) ==
    IF a = 0 THEN b
    ELSE IF b = 0 THEN a
    ELSE (IF a % 2 = 1 \/ b % 2 = 1 THEN 1 ELSE 0) + 2 * BitOr(a \div 2, b \div 2)

RECURSIVE Pow2(_)
Pow2(n) == IF n = 0 THEN 1 ELSE 2 * Pow2(n - 1)

\* x & 0xFF
LowByte(x) == x % 256

\* (x >> 8) & 0xFF
HighByte(x) == (x \div 256) % 256

\* a C array holding the bytes of a sequence, zero-based
ArrayOf(s) == [i \in 0..(Len(s) - 1) |-> s[i + 1]]

\* the first n elements of a C array, as a sequence
Prefix(arr, n) == [i \in 1..n |-> arr[i - 1]]

---------------------------------------------------------------------------
(* CRC-16/CCITT-FALSE: polynomial 0x1021, initial value 0xFFFF, MSB first, *)
(* no reflection, no final xor (utils/crc16.h)                             *)

Crc16Shift(crc) ==
    IF crc >= 32768 THEN BitXor((crc * 2) % 65536, 4129) ELSE crc * 2

RECURSIVE Crc16Bits(_, _)
Crc16Bits(crc, n) == IF n = 0 THEN crc ELSE Crc16Bits(Crc16Shift(crc), n - 1)

\* the eight shifts of one byte, tabulated by the byte that enters them
Crc16Table == [b \in Byte |-> Crc16Bits(b * 256, 8)]

\* crc = (crc << 8) ^ table[(crc >> 8) ^ byte]
Crc16Byte(crc, b) ==
    BitXor((crc % 256) * 256, Crc16Table[BitXor(crc \div 256, b)])

\* the bytes data[i..length-1] folded into crc in order, half by half
RECURSIVE Crc16From(_, _, _, _)
Crc16From(crc, data, i, length) ==
    IF i >= length \/ crc \notin 0..65535 THEN crc
    ELSE IF length = i + 1 THEN Crc16Byte(crc, data[i])
    ELSE Crc16From(Crc16From(crc, data, i, i + ((length - i) \div 2)),
                   data, i + ((length - i) \div 2), length)

\* uint16_t crc16_ccitt(const uint8_t* data, uint16_t length)
crc16_ccitt(data, length) == Crc16From(65535, data, 0, length)

---------------------------------------------------------------------------
(* The machine: receiver statics, firmware globals, SerialUSB output and   *)
(* the history, as one record the byte loop threads through.               *)

Machine ==
    [rx_state |-> rx_state, rx_buffer |-> rx_buffer,
     rx_payload_length |-> rx_payload_length,
     rx_payload_received |-> rx_payload_received,
     rx_crc_received |-> rx_crc_received,
     illumination_channel_states |-> illumination_channel_states,
     current_led_pattern |-> current_led_pattern,
     mcu_cmd_execution_in_progress |-> mcu_cmd_execution_in_progress,
     commanded_movement_in_progress |-> commanded_movement_in_progress,
     is_homing |-> is_homing, is_homing_XY |-> is_homing_XY,
     home_found |-> home_found,
     is_preparing_for_homing |-> is_preparing_for_homing,
     trigger_mode |-> trigger_mode,
     use_encoder |-> use_encoder, encoder_pos |-> encoder_pos,
     tmc_position |-> tmc_position,
     commanded_target_position |-> commanded_target_position,
     joystick_delta_x |-> joystick_delta_x, joystick_delta_y |-> joystick_delta_y,
     joystick_button_pressed |-> joystick_button_pressed,
     serial_rx |-> serial_rx, serial_tx |-> serial_tx,
     log |-> log, dispatched |-> dispatched]

Install(m) ==
    /\ rx_state' = m.rx_state
    /\ rx_buffer' = m.rx_buffer
    /\ rx_payload_length' = m.rx_payload_length
    /\ rx_payload_received' = m.rx_payload_received
    /\ rx_crc_received' = m.rx_crc_received
    /\ illumination_channel_states' = m.illumination_channel_states
    /\ current_led_pattern' = m.current_led_pattern
    /\ mcu_cmd_execution_in_progress' = m.mcu_cmd_execution_in_progress
    /\ commanded_movement_in_progress' = m.commanded_movement_in_progress
    /\ is_homing' = m.is_homing
    /\ is_homing_XY' = m.is_homing_XY
    /\ home_found' = m.home_found
    /\ is_preparing_for_homing' = m.is_preparing_for_homing
    /\ trigger_mode' = m.trigger_mode
    /\ use_encoder' = m.use_encoder
    /\ encoder_pos' = m.encoder_pos
    /\ tmc_position' = m.tmc_position
    /\ commanded_target_position' = m.commanded_target_position
    /\ joystick_delta_x' = m.joystick_delta_x
    /\ joystick_delta_y' = m.joystick_delta_y
    /\ joystick_button_pressed' = m.joystick_button_pressed
    /\ serial_rx' = m.serial_rx
    /\ serial_tx' = m.serial_tx
    /\ log' = m.log
    /\ dispatched' = m.dispatched

---------------------------------------------------------------------------
(* Response building and transmission *)

\* the state of one axis, protocol_v2.cpp:179-185 (and the three copies of it)
\* the two tests in the other order: MOVING before HOMING
AxisStateMovingFirst(m, a) ==
    IF m.commanded_movement_in_progress[a] THEN AXIS_MOVING
    ELSE IF m.is_homing[a] \/ m.is_preparing_for_homing[a] THEN AXIS_HOMING
    ELSE AXIS_IDLE

AxisStateOf(m, a) ==
    IF m.is_homing[a] \/ m.is_preparing_for_homing[a] THEN AXIS_HOMING
    ELSE IF m.commanded_movement_in_progress[a] THEN AXIS_MOVING
    ELSE AXIS_IDLE

\* X, Y, Z read the encoder when configured to; W always reads the TMC4361A
AxisPositionOf(m, a) ==
    IF a # 3 /\ m.use_encoder[a] THEN m.encoder_pos[a] ELSE m.tmc_position[a]

\* the acknowledgment bytes written in the wrong order
BuildResponseShifted(m, cmd_id, status, error) ==
    [cmd_id |-> status,
     status |-> error,
     error_code |-> cmd_id,
     system_mode |-> MODE_NORMAL,
     axes |-> [a \in Axes |->
                 [position_usteps |-> AxisPositionOf(m, a),
                  target_usteps |-> m.commanded_target_position[a],
                  state |-> AxisStateOf(m, a),
                  error_code |-> 0,
                  homed |-> IF m.home_found[a] THEN 1 ELSE 0,
                  reserved |-> 0]],
     dac_values |-> [i \in 0..7 |-> 0],
     illum_on_mask |-> m.illumination_channel_states,
     led_pattern |-> m.current_led_pattern,
     joystick_delta_x |-> m.joystick_delta_x,
     joystick_delta_y |-> m.joystick_delta_y,
     buttons |-> IF m.joystick_button_pressed THEN 1 ELSE 0,
     reserved |-> [i \in 0..2 |-> 0]]
\* the error of the command reported in every axis as well
BuildResponseAxisError(m, cmd_id, status, error) ==
    [cmd_id |-> cmd_id,
     status |-> status,
     error_code |-> error,
     system_mode |-> MODE_NORMAL,
     axes |-> [a \in Axes |->
                 [position_usteps |-> AxisPositionOf(m, a),
                  target_usteps |-> m.commanded_target_position[a],
                  state |-> AxisStateOf(m, a),
                  error_code |-> error,
                  homed |-> IF m.home_found[a] THEN 1 ELSE 0,
                  reserved |-> 0]],
     dac_values |-> [i \in 0..7 |-> 0],
     illum_on_mask |-> m.illumination_channel_states,
     led_pattern |-> m.current_led_pattern,
     joystick_delta_x |-> m.joystick_delta_x,
     joystick_delta_y |-> m.joystick_delta_y,
     buttons |-> IF m.joystick_button_pressed THEN 1 ELSE 0,
     reserved |-> [i \in 0..2 |-> 0]]

protocol_v2_build_response(m, cmd_id, status, error) ==
    [cmd_id |-> cmd_id,
     status |-> status,
     error_code |-> error,
     system_mode |-> MODE_NORMAL,
     axes |-> [a \in Axes |->
                 [position_usteps |-> AxisPositionOf(m, a),
                  target_usteps |-> m.commanded_target_position[a],
                  state |-> AxisStateOf(m, a),
                  error_code |-> 0,
                  homed |-> IF m.home_found[a] THEN 1 ELSE 0,
                  reserved |-> 0]],
     dac_values |-> [i \in 0..7 |-> 0],
     illum_on_mask |-> m.illumination_channel_states,
     led_pattern |-> m.current_led_pattern,
     joystick_delta_x |-> m.joystick_delta_x,
     joystick_delta_y |-> m.joystick_delta_y,
     buttons |-> IF m.joystick_button_pressed THEN 1 ELSE 0,
     reserved |-> [i \in 0..2 |-> 0]]

\* an unsigned or two's complement 16-bit value as its two bytes in memory
\* order (little-endian), and a 32-bit value as its four
LE16(x) ==
    LET u == (x + 65536) % 65536
    IN << u % 256, u \div 256 >>

LE32(x) ==
    LET b0 == x % 256
        x1 == (x - b0) \div 256
        b1 == x1 % 256
        x2 == (x1 - b1) \div 256
        b2 == x2 % 256
        x3 == (x2 - b2) \div 256
    IN << b0, b1, b2, x3 % 256 >>

\* struct AxisStatus, packed: 12 bytes
AxisStatusBytes(x) ==
    LE32(x.position_usteps) \o LE32(x.target_usteps)
    \o << x.state, x.error_code, x.homed, x.reserved >>

\* struct ResponsePacket, packed, as memcpy reads it: 78 bytes
ResponsePacketBytes(r) ==
    << r.cmd_id, r.status, r.error_code, r.system_mode >>
    \o AxisStatusBytes(r.axes[0]) \o AxisStatusBytes(r.axes[1])
    \o AxisStatusBytes(r.axes[2]) \o AxisStatusBytes(r.axes[3])
    \o [i \in 1..16 |-> LE16(r.dac_values[(i - 1) \div 2])[2 - (i % 2)]]
    \o << r.illum_on_mask, r.led_pattern >>
    \o LE16(r.joystick_delta_x) \o LE16(r.joystick_delta_y)
    \o << r.buttons, r.reserved[0], r.reserved[1], r.reserved[2] >>

\* the CRC taken from packet[0], header included
PacketCrcFromHeader(response) ==
    LET payload_length == RESPONSE_SIZE
        head == << PACKET_HEADER_0, PACKET_HEADER_1,
                   LowByte(payload_length), HighByte(payload_length) >>
                \o ResponsePacketBytes(response)
        crc == crc16_ccitt(ArrayOf(head), payload_length + 2)
    IN head \o << LowByte(crc), HighByte(crc) >>

\* uint8_t packet[PACKET_OVERHEAD + RESPONSE_SIZE] as protocol_v2_send_response
\* fills it: header, length, the response structure, CRC over &packet[2]
packet(response) ==
    LET payload_length == RESPONSE_SIZE
        head == << PACKET_HEADER_0, PACKET_HEADER_1,
                   LowByte(payload_length), HighByte(payload_length) >>
                \o ResponsePacketBytes(response)
        crc == crc16_ccitt([i \in 0..(payload_length + 1) |-> head[i + 3]],
                           payload_length + 2)
    IN head \o << LowByte(crc), HighByte(crc) >>

\* one SerialUSB.write(packet, PACKET_OVERHEAD + RESPONSE_SIZE). serial_tx
\* keeps, write by write, the structure the packet was filled from; the bytes
\* that went out are packet(response).
protocol_v2_send_response(m, response) ==
    [m EXCEPT !.serial_tx = Append(@, response)]

---------------------------------------------------------------------------
(* Command handlers and dispatch *)

\* GET_STATE taken as the end of the command in progress
HandleGetStateCompletes(m, cmd_id) ==
    LET n == [m EXCEPT !.mcu_cmd_execution_in_progress = FALSE]
    IN protocol_v2_send_response(n, protocol_v2_build_response(n, cmd_id, STATUS_OK, ERR_NONE))

handle_cmd_get_state(m, cmd_id) ==
    protocol_v2_send_response(m, protocol_v2_build_response(m, cmd_id, STATUS_OK, ERR_NONE))

\* the reset without the group of is_preparing_for_homing assignments
HandleResetKeepsPreparing(m, cmd_id) ==
    LET n == [m EXCEPT !.mcu_cmd_execution_in_progress = FALSE,
                       !.commanded_movement_in_progress = [a \in Axes |-> FALSE],
                       !.is_homing = [a \in Axes |-> FALSE],
                       !.is_homing_XY = FALSE,
                       !.home_found = [a \in Axes |-> FALSE],
                       !.trigger_mode = 0,
                       !.illumination_channel_states = 0,
                       !.current_led_pattern = 0]
    IN protocol_v2_send_response(n, protocol_v2_build_response(n, cmd_id, STATUS_OK, ERR_NONE))

handle_cmd_reset(m, cmd_id) ==
    LET r == [m EXCEPT
                !.mcu_cmd_execution_in_progress = FALSE,
                !.commanded_movement_in_progress = [a \in Axes |-> FALSE],
                !.is_homing = [a \in Axes |-> FALSE],
                !.is_homing_XY = FALSE,
                !.home_found = [a \in Axes |-> FALSE],
                !.is_preparing_for_homing = [a \in Axes |-> FALSE],
                !.trigger_mode = 0,
                !.illumination_channel_states = 0,
                !.current_led_pattern = 0]
    IN protocol_v2_send_response(r, protocol_v2_build_response(r, cmd_id, STATUS_OK, ERR_NONE))

handle_cmd_get_version(m, cmd_id) ==
    protocol_v2_send_response(m, protocol_v2_build_response(m, cmd_id, STATUS_OK, ERR_NONE))

\* an unknown command dropped without an answer
HandleUnknownSilent(m, cmd_id, cmd_type) == m

handle_unknown_command(m, cmd_id, cmd_type) ==
    protocol_v2_send_response(m,
        protocol_v2_build_response(m, cmd_id, STATUS_REJECTED, ERR_INVALID_CMD))

\* without the test of the length: the type is whatever byte the buffer
\* holds after the payload
ProcessCommandNoLength(m, payload, length) ==
    LET cmd_id == payload[0]
        cmd_type == payload[1]
    IN CASE cmd_type = CMD_GET_STATE -> handle_cmd_get_state(m, cmd_id)
         [] cmd_type = CMD_RESET -> handle_cmd_reset(m, cmd_id)
         [] cmd_type = CMD_GET_VERSION -> handle_cmd_get_version(m, cmd_id)
         [] OTHER -> handle_unknown_command(m, cmd_id, cmd_type)

\* with INITIALIZE routed to the reset handler, as the legacy firmware does
ProcessCommandInitialize(m, payload, length) ==
    IF length < 2
    THEN protocol_v2_send_response(m,
             protocol_v2_build_response(m, 0, STATUS_REJECTED, ERR_PACKET_TOO_SHORT))
    ELSE LET cmd_id == payload[0]
             cmd_type == payload[1]
         IN CASE cmd_type = CMD_GET_STATE -> handle_cmd_get_state(m, cmd_id)
              [] cmd_type = CMD_RESET -> handle_cmd_reset(m, cmd_id)
              [] cmd_type = CMD_INITIALIZE -> handle_cmd_reset(m, cmd_id)
              [] cmd_type = CMD_GET_VERSION -> handle_cmd_get_version(m, cmd_id)
              [] OTHER -> handle_unknown_command(m, cmd_id, cmd_type)

\* payload is a C array, length the number of bytes of it that are valid
process_command(m, payload, length) ==
    IF length < 2
    THEN protocol_v2_send_response(m,
             protocol_v2_build_response(m, 0, STATUS_REJECTED, ERR_PACKET_TOO_SHORT))
    ELSE LET cmd_id == payload[0]
             cmd_type == payload[1]
         IN CASE cmd_type = CMD_GET_STATE -> handle_cmd_get_state(m, cmd_id)
              [] cmd_type = CMD_RESET -> handle_cmd_reset(m, cmd_id)
              [] cmd_type = CMD_GET_VERSION -> handle_cmd_get_version(m, cmd_id)
              [] OTHER -> handle_unknown_command(m, cmd_id, cmd_type)

---------------------------------------------------------------------------
(* Packet reception: the body of the switch, for one byte read *)

\* the call at protocol_v2.cpp:143, with its entry in the history
Dispatch(m) ==
    process_command(
        [m EXCEPT !.dispatched =
            Append(@, [at |-> Len(m.log) + 1,
                       payload |-> Prefix(m.rx_buffer, m.rx_payload_length),
                       length |-> m.rx_payload_length])],
        m.rx_buffer, m.rx_payload_length)

\* either header byte taken for the first one
RxWaitHeader0EitherByte(m, byte) ==
    IF byte \in {PACKET_HEADER_0, PACKET_HEADER_1}
    THEN [m EXCEPT !.rx_state = "RX_WAIT_HEADER_1"] ELSE m

RxWaitHeader0(m, byte) ==
    IF byte = PACKET_HEADER_0 THEN [m EXCEPT !.rx_state = "RX_WAIT_HEADER_1"] ELSE m

\* without the branch that keeps WAIT_HEADER_1 on a repeated 0xAA
RxWaitHeader1NoRepeat(m, byte) ==
    IF byte = PACKET_HEADER_1 THEN [m EXCEPT !.rx_state = "RX_WAIT_LENGTH_0"]
    ELSE [m EXCEPT !.rx_state = "RX_WAIT_HEADER_0"]

RxWaitHeader1(m, byte) ==
    IF byte = PACKET_HEADER_1 THEN [m EXCEPT !.rx_state = "RX_WAIT_LENGTH_0"]
    ELSE IF byte = PACKET_HEADER_0 THEN [m EXCEPT !.rx_state = "RX_WAIT_HEADER_1"]
    ELSE [m EXCEPT !.rx_state = "RX_WAIT_HEADER_0"]

RxWaitLength0(m, byte) ==
    [m EXCEPT !.rx_payload_length = byte, !.rx_state = "RX_WAIT_LENGTH_1"]
\* the length checked against the size of the receive buffer
RxWaitLength1BufferSize(m, byte) ==
    LET len == BitOr(m.rx_payload_length, (byte * 256) % 65536)
    IN IF len = 0 \/ len > RX_BUFFER_SIZE
       THEN [m EXCEPT !.rx_payload_length = len, !.rx_state = "RX_WAIT_HEADER_0"]
       ELSE [m EXCEPT !.rx_payload_length = len, !.rx_payload_received = 0,
                      !.rx_state = "RX_WAIT_PAYLOAD"]

\* the payload count of the frame before carried into the next
RxWaitLength1KeepsCount(m, byte) ==
    LET len == BitOr(m.rx_payload_length, (byte * 256) % 65536)
    IN IF len = 0 \/ len > PACKET_MAX_PAYLOAD
       THEN [m EXCEPT !.rx_payload_length = len, !.rx_state = "RX_WAIT_HEADER_0"]
       ELSE [m EXCEPT !.rx_payload_length = len, !.rx_state = "RX_WAIT_PAYLOAD"]

\* the byte that ends an invalid length looked at again as a header byte
RxWaitLength1Reexamines(m, byte) ==
    LET len == BitOr(m.rx_payload_length, (byte * 256) % 65536)
    IN IF len = 0 \/ len > PACKET_MAX_PAYLOAD
       THEN RxWaitHeader0([m EXCEPT !.rx_payload_length = len,
                                    !.rx_state = "RX_WAIT_HEADER_0"], byte)
       ELSE [m EXCEPT !.rx_payload_length = len, !.rx_payload_received = 0,
                      !.rx_state = "RX_WAIT_PAYLOAD"]

\* without the test for a length of 0
RxWaitLength1NoZero(m, byte) ==
    LET len == BitOr(m.rx_payload_length, (byte * 256) % 65536)
    IN IF len > PACKET_MAX_PAYLOAD
       THEN [m EXCEPT !.rx_payload_length = len, !.rx_state = "RX_WAIT_HEADER_0"]
       ELSE [m EXCEPT !.rx_payload_length = len, !.rx_payload_received = 0,
                      !.rx_state = "RX_WAIT_PAYLOAD"]

RxWaitLength1(m, byte) ==
    LET len == BitOr(m.rx_payload_length, (byte * 256) % 65536)
    IN IF len = 0 \/ len > PACKET_MAX_PAYLOAD
       THEN [m EXCEPT !.rx_payload_length = len, !.rx_state = "RX_WAIT_HEADER_0"]
       ELSE [m EXCEPT !.rx_payload_length = len, !.rx_payload_received = 0,
                      !.rx_state = "RX_WAIT_PAYLOAD"]

\* > for >= in the test that ends the payload
RxWaitPayloadOneMore(m, byte) ==
    LET n == (m.rx_payload_received + 1) % 65536
        w == [m EXCEPT !.rx_buffer[m.rx_payload_received] = byte,
                       !.rx_payload_received = n]
    IN IF n > m.rx_payload_length THEN [w EXCEPT !.rx_state = "RX_WAIT_CRC_0"] ELSE w

RxWaitPayload(m, byte) ==
    LET n == (m.rx_payload_received + 1) % 65536
        w == [m EXCEPT !.rx_buffer[m.rx_payload_received] = byte,
                       !.rx_payload_received = n]
    IN IF n >= m.rx_payload_length THEN [w EXCEPT !.rx_state = "RX_WAIT_CRC_0"] ELSE w

RxWaitCrc0(m, byte) ==
    [m EXCEPT !.rx_crc_received = byte, !.rx_state = "RX_WAIT_CRC_1"]

\* the CRC compared in its low byte only
RxWaitCrc1LowByte(m, byte) ==
    LET crc == BitOr(m.rx_crc_received, (byte * 256) % 65536)
        c == [m EXCEPT !.rx_crc_received = crc]
        crc_data == [i \in 0..(c.rx_payload_length + 1) |->
                       IF i = 0 THEN LowByte(c.rx_payload_length)
                       ELSE IF i = 1 THEN HighByte(c.rx_payload_length)
                       ELSE c.rx_buffer[i - 2]]
        calculated_crc == crc16_ccitt(crc_data, c.rx_payload_length + 2)
        d == IF LowByte(calculated_crc) = LowByte(crc) THEN Dispatch(c) ELSE c
    IN [d EXCEPT !.rx_state = "RX_WAIT_HEADER_0"]

\* the command handled only when no further byte is waiting
RxWaitCrc1WhenIdle(m, byte) ==
    LET crc == BitOr(m.rx_crc_received, (byte * 256) % 65536)
        c == [m EXCEPT !.rx_crc_received = crc]
        crc_data == [i \in 0..(c.rx_payload_length + 1) |->
                       IF i = 0 THEN LowByte(c.rx_payload_length)
                       ELSE IF i = 1 THEN HighByte(c.rx_payload_length)
                       ELSE c.rx_buffer[i - 2]]
        calculated_crc == crc16_ccitt(crc_data, c.rx_payload_length + 2)
        d == IF calculated_crc = crc /\ c.serial_rx = << >> THEN Dispatch(c) ELSE c
    IN [d EXCEPT !.rx_state = "RX_WAIT_HEADER_0"]

\* a CRC mismatch answered with a REJECTED / checksum response
RxWaitCrc1Nack(m, byte) ==
    LET crc == BitOr(m.rx_crc_received, (byte * 256) % 65536)
        c == [m EXCEPT !.rx_crc_received = crc]
        crc_data == [i \in 0..(c.rx_payload_length + 1) |->
                       IF i = 0 THEN LowByte(c.rx_payload_length)
                       ELSE IF i = 1 THEN HighByte(c.rx_payload_length)
                       ELSE c.rx_buffer[i - 2]]
        calculated_crc == crc16_ccitt(crc_data, c.rx_payload_length + 2)
        d == IF calculated_crc = crc THEN Dispatch(c)
             ELSE protocol_v2_send_response(c,
                      protocol_v2_build_response(c, 0, STATUS_REJECTED, ERR_CHECKSUM))
    IN [d EXCEPT !.rx_state = "RX_WAIT_HEADER_0"]

\* a CRC mismatch answered by waiting for another pair of CRC bytes
RxWaitCrc1RetriesOnMismatch(m, byte) ==
    LET crc == BitOr(m.rx_crc_received, (byte * 256) % 65536)
        c == [m EXCEPT !.rx_crc_received = crc]
        crc_data == [i \in 0..(c.rx_payload_length + 1) |->
                       IF i = 0 THEN LowByte(c.rx_payload_length)
                       ELSE IF i = 1 THEN HighByte(c.rx_payload_length)
                       ELSE c.rx_buffer[i - 2]]
        calculated_crc == crc16_ccitt(crc_data, c.rx_payload_length + 2)
    IN IF calculated_crc = crc
       THEN [Dispatch(c) EXCEPT !.rx_state = "RX_WAIT_HEADER_0"]
       ELSE [c EXCEPT !.rx_state = "RX_WAIT_CRC_0"]

RxWaitCrc1(m, byte) ==
    LET crc == BitOr(m.rx_crc_received, (byte * 256) % 65536)
        c == [m EXCEPT !.rx_crc_received = crc]
        crc_data == [i \in 0..(c.rx_payload_length + 1) |->
                       IF i = 0 THEN LowByte(c.rx_payload_length)
                       ELSE IF i = 1 THEN HighByte(c.rx_payload_length)
                       ELSE c.rx_buffer[i - 2]]
        calculated_crc == crc16_ccitt(crc_data, c.rx_payload_length + 2)
        d == IF calculated_crc = crc THEN Dispatch(c) ELSE c
    IN [d EXCEPT !.rx_state = "RX_WAIT_HEADER_0"]

RxSwitch(m, byte) ==
    CASE m.rx_state = "RX_WAIT_HEADER_0" -> RxWaitHeader0(m, byte)
      [] m.rx_state = "RX_WAIT_HEADER_1" -> RxWaitHeader1(m, byte)
      [] m.rx_state = "RX_WAIT_LENGTH_0" -> RxWaitLength0(m, byte)
      [] m.rx_state = "RX_WAIT_LENGTH_1" -> RxWaitLength1(m, byte)
      [] m.rx_state = "RX_WAIT_PAYLOAD" -> RxWaitPayload(m, byte)
      [] m.rx_state = "RX_WAIT_CRC_0" -> RxWaitCrc0(m, byte)
      [] m.rx_state = "RX_WAIT_CRC_1" -> RxWaitCrc1(m, byte)

\* one iteration of the while loop: read a byte, run the switch, and note
\* in the history what the iteration did
RxByte(m, byte) ==
    LET n == RxSwitch(m, byte)
    IN [n EXCEPT !.log =
           Append(@, [byte |-> byte, pre |-> m.rx_state, post |-> n.rx_state,
                      stored |-> n.rx_buffer # m.rx_buffer
                                 \/ n.rx_payload_received = m.rx_payload_received + 1,
                      ndisp |-> Len(n.dispatched), nsent |-> Len(n.serial_tx)])]

\* uint8_t byte = SerialUSB.read(), then the switch
RxRead(m) == RxByte([m EXCEPT !.serial_rx = Tail(@)], Head(m.serial_rx))

\* while (SerialUSB.available()): available of the bytes on the line have
\* arrived when the call is made
\* The iterations are taken half by half, which is the same sequence of
\* reads and keeps the evaluation shallow for a full 512-byte frame.
RECURSIVE RxLoop(_, _)
RxLoop(m, available) ==
    IF available = 0 \/ m.serial_rx = << >> THEN m
    ELSE IF available = 1 THEN RxRead(m)
    ELSE RxLoop(RxLoop(m, available \div 2), available - (available \div 2))

\* rx_state as a local of the call, initialised on entry
ProcessCallLocalState(m, available) ==
    RxLoop([m EXCEPT !.rx_state = "RX_WAIT_HEADER_0"], available)

\* void protocol_v2_process(): the loop is all of it, and every variable it
\* reads is static or global
ProcessCall(m, available) == RxLoop(m, available)

---------------------------------------------------------------------------
(* The host side of the wire, protocol_v2.h:21-23 *)

\* [0xAA 0xBB] [length u16 LE] [payload] [CRC-16 u16 LE over length + payload]
\* The strobe arrays, the illumination flag and the clock as one record, so
\* that the handler's statements can be applied one after the other.
StrobeMachine ==
    [illumination_is_on |-> illumination_is_on,
     control_strobe |-> control_strobe,
     strobe_output_level |-> strobe_output_level,
     strobe_on |-> strobe_on,
     strobe_delay |-> strobe_delay,
     illumination_on_time |-> illumination_on_time,
     timestamp_trigger_rising_edge |-> timestamp_trigger_rising_edge,
     micros |-> micros,
     pulses |-> pulses]

InstallStrobe(s) ==
    /\ illumination_is_on' = s.illumination_is_on
    /\ control_strobe' = s.control_strobe
    /\ strobe_output_level' = s.strobe_output_level
    /\ strobe_on' = s.strobe_on
    /\ strobe_delay' = s.strobe_delay
    /\ illumination_on_time' = s.illumination_on_time
    /\ timestamp_trigger_rising_edge' = s.timestamp_trigger_rising_edge
    /\ micros' = s.micros
    /\ pulses' = s.pulses

\* void turn_on_illumination(): the flag, and the source switched on. The
\* call is recorded with the time and, once the caller has tagged it, the
\* strobe channel it was made for (-1: a call from the main loop).
turn_on_illumination(s) ==
    [s EXCEPT !.illumination_is_on = TRUE,
              !.pulses = Append(@, [what |-> "on", at |-> s.micros, by |-> -1])]

\* void turn_off_illumination()
turn_off_illumination(s) ==
    [s EXCEPT !.illumination_is_on = FALSE,
              !.pulses = Append(@, [what |-> "off", at |-> s.micros, by |-> -1])]

\* the pulse length up to which the handler waits the pulse out itself,
\* functions.cpp:358
SHORT_PULSE_LIMIT == 30000

\* the period of strobeTimer in microseconds
TickPeriod == 10000

\* the last illumination call was made for strobe channel c
Tagged(s, c) == [s EXCEPT !.pulses[Len(s.pulses)].by = c]

\* delayMicroseconds(us): the handler holds the processor for us microseconds
delayMicroseconds(s, us) == [s EXCEPT !.micros = @ + us]

\* micros() - timestamp_trigger_rising_edge[camera_channel]; the run stays
\* far below the 2^32 microseconds at which micros() wraps
Elapsed(s, c) == s.micros - s.timestamp_trigger_rising_edge[c]

\* the short pulse made but the channel left armed
StrobeShortPulseStaysArmed(s, c) ==
    IF Elapsed(s, c) >= s.strobe_delay[c] /\ s.strobe_output_level[c] = LOW
    THEN LET on == Tagged(turn_on_illumination(s), c)
             held == delayMicroseconds(on, on.illumination_on_time[c])
         IN Tagged(turn_off_illumination(held), c)
    ELSE s

\* functions.cpp:358-368, illumination_on_time <= 30000: the pulse is made
\* inside the handler
StrobeShortPulse(s, c) ==
    IF Elapsed(s, c) >= s.strobe_delay[c] /\ s.strobe_output_level[c] = LOW
    THEN LET on == Tagged(turn_on_illumination(s), c)
             held == delayMicroseconds(on, on.illumination_on_time[c])
             off == Tagged(turn_off_illumination(held), c)
         IN [off EXCEPT !.control_strobe[c] = FALSE]
    ELSE s
\* the strobe started and never ended
StrobeLongPulseNeverEnds(s, c) ==
    IF Elapsed(s, c) >= s.strobe_delay[c] /\ s.strobe_output_level[c] = LOW
    THEN [Tagged(turn_on_illumination(s), c) EXCEPT !.strobe_output_level[c] = HIGH]
    ELSE s

\* the channel disarmed when its strobe starts
StrobeLongPulseDisarmsAtStart(s, c) ==
    LET started ==
            IF Elapsed(s, c) >= s.strobe_delay[c] /\ s.strobe_output_level[c] = LOW
            THEN [Tagged(turn_on_illumination(s), c)
                     EXCEPT !.strobe_output_level[c] = HIGH,
                            !.control_strobe[c] = FALSE]
            ELSE s
    IN IF /\ Elapsed(started, c) >=
                 started.strobe_delay[c] + started.illumination_on_time[c]
          /\ started.strobe_output_level[c] = HIGH
       THEN [Tagged(turn_off_illumination(started), c)
                EXCEPT !.strobe_output_level[c] = LOW,
                       !.control_strobe[c] = FALSE]
       ELSE started

\* the start of the strobe stamping the trigger edge anew
StrobeLongPulseRestamps(s, c) ==
    LET started ==
            IF Elapsed(s, c) >= s.strobe_delay[c] /\ s.strobe_output_level[c] = LOW
            THEN [Tagged(turn_on_illumination(s), c)
                     EXCEPT !.strobe_output_level[c] = HIGH,
                            !.timestamp_trigger_rising_edge[c] = s.micros]
            ELSE s
    IN IF /\ Elapsed(started, c) >=
                 started.strobe_delay[c] + started.illumination_on_time[c]
          /\ started.strobe_output_level[c] = HIGH
       THEN [Tagged(turn_off_illumination(started), c)
                EXCEPT !.strobe_output_level[c] = LOW,
                       !.control_strobe[c] = FALSE]
       ELSE started

\* functions.cpp:369-384, longer pulses: the start of the strobe, then the
\* end of the strobe, both looked at in every run of the handler
StrobeLongPulse(s, c) ==
    LET started ==
            IF Elapsed(s, c) >= s.strobe_delay[c] /\ s.strobe_output_level[c] = LOW
            THEN [Tagged(turn_on_illumination(s), c)
                     EXCEPT !.strobe_output_level[c] = HIGH]
            ELSE s
    IN IF /\ Elapsed(started, c) >=
                 started.strobe_delay[c] + started.illumination_on_time[c]
          /\ started.strobe_output_level[c] = HIGH
       THEN [Tagged(turn_off_illumination(started), c)
                EXCEPT !.strobe_output_level[c] = LOW,
                       !.control_strobe[c] = FALSE]
       ELSE started
\* the handler marking every channel it comes to as strobing
StrobeChannelMarksAll(s, c) ==
    LET marked == [s EXCEPT !.strobe_on[c] = TRUE]
    IN IF marked.control_strobe[c]
       THEN LET looked == [marked EXCEPT !.pulses =
                              Append(@, [what |-> "check", at |-> s.micros, by |-> c])]
            IN IF looked.illumination_on_time[c] <= SHORT_PULSE_LIMIT
               THEN StrobeShortPulse(looked, c)
               ELSE StrobeLongPulse(looked, c)
       ELSE marked

\* the body of the loop for one camera_channel, functions.cpp:355-385; that
\* the handler looked at an armed channel is recorded with the time
StrobeChannel(s, c) ==
    IF s.control_strobe[c]
    THEN LET looked == [s EXCEPT !.pulses =
                           Append(@, [what |-> "check", at |-> s.micros, by |-> c])]
         IN IF looked.illumination_on_time[c] <= SHORT_PULSE_LIMIT
            THEN StrobeShortPulse(looked, c)
            ELSE StrobeLongPulse(looked, c)
    ELSE s

\* for (camera_channel = from; camera_channel < 6; camera_channel++)
RECURSIVE StrobeLoop(_, _)
StrobeLoop(s, camera_channel) ==
    IF camera_channel \notin Channels
    THEN s
    ELSE StrobeLoop(StrobeChannel(s, camera_channel), camera_channel + 1)

\* void ISR_strobeTimer(), entered at s.micros
ISR_strobeTimer(s) ==
    StrobeLoop([s EXCEPT !.pulses =
                   Append(@, [what |-> "tick", at |-> s.micros, by |-> -1])], 0)

FrameOf(payload) ==
    LET body == << LowByte(Len(payload)), HighByte(Len(payload)) >> \o payload
        crc == crc16_ccitt(ArrayOf(body), Len(body))
    IN << PACKET_HEADER_0, PACKET_HEADER_1 >> \o body \o << LowByte(crc), HighByte(crc) >>

\* bit k of the frame counted from the first length byte, bit 0 the least
\* significant bit of that byte
FlipBit(frame, k) ==
    LET i == 3 + (k \div 8)
        mask == Pow2(k % 8)
    IN [frame EXCEPT ![i] = BitXor(@, mask)]

\* the field of a frame of payload length n that bit k lies in
FieldOfBit(n, k) ==
    IF k < 16 THEN "length" ELSE IF k < 16 + 8 * n THEN "payload" ELSE "crc"

GoodUnit(p) == [kind |-> "good", payload |-> p, bytes |-> FrameOf(p), field |-> "none"]

CorruptUnit(p, k) ==
    [kind |-> "corrupt", payload |-> p, bytes |-> FlipBit(FrameOf(p), k),
     field |-> FieldOfBit(Len(p), k)]

GarbageUnit(b) == [kind |-> "garbage", payload |-> << >>, bytes |-> b, field |-> "none"]

\* a header followed by the two bytes of a length that is 0 or above 506
BadLengthUnit(lo, hi) ==
    [kind |-> "badlen", payload |-> << >>,
     bytes |-> << PACKET_HEADER_0, PACKET_HEADER_1, lo, hi >>, field |-> "none"]

\* a header and a valid length, cut off after the bytes given
TruncatedUnit(lo, hi, some) ==
    [kind |-> "truncated", payload |-> << >>,
     bytes |-> << PACKET_HEADER_0, PACKET_HEADER_1, lo, hi >> \o some, field |-> "none"]

\* payloads the host sends: too short, GET_STATE, RESET, a type of the
\* enumeration that has no handler, GET_VERSION with a header byte as id,
\* an illumination command carrying the other header byte
GoodPayloads ==
    { << 7 >>, << 17, CMD_GET_STATE >>, << 18, CMD_RESET >>, << 19, CMD_MOVE_AXIS >>,
      << PACKET_HEADER_0, CMD_GET_VERSION >>, << 20, CMD_SET_ILLUMINATION, PACKET_HEADER_1 >> }

GarbageRuns ==
    { << 0 >>, << PACKET_HEADER_0 >>, << PACKET_HEADER_1 >>,
      << PACKET_HEADER_0, 0 >>, << PACKET_HEADER_0, PACKET_HEADER_1 >> }

\* lengths 0, 507, 512 and 65535
BadLengths == { << 0, 0 >>, << 251, 1 >>, << 0, 2 >>, << 255, 255 >> }

\* payloads of PACKET_MAX_PAYLOAD bytes and of 256 bytes (length 0x0100),
\* each with header bytes inside
LongPayloads ==
    { [i \in 1..PACKET_MAX_PAYLOAD |->
          IF i = 100 THEN PACKET_HEADER_0
          ELSE IF i = 101 THEN PACKET_HEADER_1 ELSE (7 * i) % 256],
      [i \in 1..(PACKET_MAX_PAYLOAD - 250) |-> (i + PACKET_HEADER_0 - 9) % 256] }

\* a frame whose CRC high byte arrives as the first header byte
BadCrcUnit(p) ==
    [kind |-> "badcrc", payload |-> p,
     bytes |-> [FrameOf(p) EXCEPT ![Len(FrameOf(p))] = PACKET_HEADER_0], field |-> "crc"]

\* units whose aborting byte is 0xAA, and what may follow them: a frame
\* without its first header byte, whole frames, a lone 0xBB
AbortUnits ==
    { BadLengthUnit(0, PACKET_HEADER_0), BadLengthUnit(0, 0),
      BadCrcUnit(<< 17, CMD_GET_STATE >>),
      GarbageUnit(Tail(FrameOf(<< 17, CMD_GET_STATE >>))),
      GoodUnit(<< 17, CMD_GET_STATE >>), GoodUnit(<< 7 >>),
      GarbageUnit(<< PACKET_HEADER_1 >>) }

StreamUnits ==
    { GoodUnit(p) : p \in GoodPayloads }
    \cup { GarbageUnit(b) : b \in GarbageRuns }
    \cup { BadLengthUnit(l[1], l[2]) : l \in BadLengths }
    \cup { TruncatedUnit(2, 0, << 9 >>), TruncatedUnit(250, 1, << >>) }

\* a 3-byte payload whose last two bytes are the CRC of the 1-byte frame its
\* first byte makes: the frame a length of 1 would have delimited
NestedPayload ==
    LET crc == crc16_ccitt(ArrayOf(<< 1, 0, 33 >>), 3)
    IN << 33, LowByte(crc), HighByte(crc) >>

CorruptPayloads == { << 7 >>, NestedPayload }

\* every single bit of the length, payload and CRC fields
CorruptUnits ==
    UNION { { CorruptUnit(p, k) : k \in 0..(8 * (Len(p) + 4) - 1) } : p \in CorruptPayloads }

\* what surrounds the corrupted frame
FlipUnits ==
    { GoodUnit(<< 17, CMD_GET_STATE >>), GoodUnit(<< 7 >>),
      GarbageUnit(<< PACKET_HEADER_0 >>), BadLengthUnit(0, 0) }

---------------------------------------------------------------------------
(* Bounds *)

\* units the host writes in one run
MaxUnits == 2

\* commands, flag changes and illumination calls in one run
MaxEvents == 2

\* times a strobe channel is armed in one run
MaxArms == 2

\* the time in microseconds after which no further channel is armed
MaxArmMicros == 10000

\* the time in microseconds after which the strobe timer is no longer followed
MaxMicros == 100000

\* bytes one call of protocol_v2_process finds available, unless it finds all
MaxChunk == 2

---------------------------------------------------------------------------
(* Initial state: static initialisers and protocol_v2_init *)

InitFirmware ==
    /\ rx_state = "RX_WAIT_HEADER_0"
    /\ rx_buffer = [i \in 0..(RX_BUFFER_SIZE - 1) |-> 0]
    /\ rx_payload_length = 0
    /\ rx_payload_received = 0
    /\ rx_crc_received = 0
    /\ serial_rx = << >>
    /\ serial_tx = << >>
    /\ units = << >>
    /\ log = << >>
    /\ dispatched = << >>

InitGlobalsIdle ==
    /\ illumination_channel_states = 0
    /\ current_led_pattern = 0
    /\ mcu_cmd_execution_in_progress = FALSE
    /\ commanded_movement_in_progress = [a \in Axes |-> FALSE]
    /\ is_homing = [a \in Axes |-> FALSE]
    /\ is_homing_XY = FALSE
    /\ home_found = [a \in Axes |-> FALSE]
    /\ is_preparing_for_homing = [a \in Axes |-> FALSE]
    /\ trigger_mode = 0
    /\ use_encoder = [a \in Axes |-> FALSE]
    /\ encoder_pos = [a \in Axes |-> 0]
    /\ tmc_position = [a \in Axes |-> 0]
    /\ commanded_target_position = [a \in Axes |-> 0]
    /\ joystick_delta_x = 0
    /\ joystick_delta_y = 0
    /\ joystick_button_pressed = FALSE

\* the firmware at work: X homing, Y moving, Z preparing to home and moving,
\* W homed, joystick in use. The two illumination statics are private to
\* protocol_v2.cpp, which only ever writes 0 to them.
InitGlobalsBusy ==
    /\ illumination_channel_states = 0
    /\ current_led_pattern = 0
    /\ mcu_cmd_execution_in_progress = TRUE
    /\ commanded_movement_in_progress = [a \in Axes |-> a \in {1, 2}]
    /\ is_homing = [a \in Axes |-> a = 0]
    /\ is_homing_XY = TRUE
    /\ home_found = [a \in Axes |-> a = 3]
    /\ is_preparing_for_homing = [a \in Axes |-> a = 2]
    /\ trigger_mode = 1
    /\ use_encoder = [a \in Axes |-> a = 0]
    /\ encoder_pos = [a \in Axes |-> 100 + a]
    /\ tmc_position = [a \in Axes |-> 200 + a]
    /\ commanded_target_position = [a \in Axes |-> 300 + a]
    /\ joystick_delta_x = 3
    /\ joystick_delta_y = -4
    /\ joystick_button_pressed = TRUE

\* the axes a flag is set for
FlagPatterns == { {}, Axes, {0, 2}, {1} }

FlagsOf(P) == [a \in Axes |-> a \in P]

\* the commands between which the snapshot is watched
SnapPayloads ==
    { << 1, CMD_GET_STATE >>, << 2, CMD_RESET >>, << 3, CMD_GET_VERSION >> }

\* commands of every outcome: OK, invalid command, packet too short
WirePayloads ==
    SnapPayloads
    \cup { << 9 >>, << 4, CMD_MOVE_AXIS >>, << PACKET_HEADER_0, CMD_GET_STATE >> }

NoCall == [payload |-> << >>, stale |-> << >>, done |-> TRUE]

\* a CRC-valid payload as process_command gets it: the bytes of the payload
\* and, after them in the buffer, what an earlier frame left there
CallOf(p, rest) == [payload |-> p, stale |-> rest, done |-> FALSE]

\* what a RESET or a GET_STATE frame leaves as the buffer's second byte
StaleBytes == { << CMD_RESET >>, << CMD_GET_STATE >> }

\* every command_id with every command_type, and every 1-byte payload
AllCalls ==
    { CallOf(<< id, type >>, << >>) : id \in Byte, type \in Byte }
    \cup { CallOf(<< id >>, rest) : id \in Byte, rest \in StaleBytes }

\* longer payloads, of the handled types and of types without a handler
LongCalls ==
    { CallOf(<< 9, type >> \o rest, << >>) :
        type \in {CMD_GET_STATE, CMD_RESET, CMD_GET_VERSION, CMD_MOVE_AXIS,
                  CMD_SET_ILLUMINATION, CMD_INITIALIZE},
        rest \in {<< 0 >>, << 1, 2, 3, 4 >>} }

\* the strobe arrays and the illumination flag as their initialisers leave them
---------------------------------------------------------------------------
(* The TTL-only build, firmware/controller_ttl_only/src: fixed 8-byte      *)
(* commands [command_id][command_type][5 bytes][crc8], fixed 24-byte       *)
(* replies sent periodically.                                              *)

CMD_LENGTH == 8
MSG_LENGTH == 24

\* command codes, constants.h:21-57
MOVE_X == 0
MOVE_Y == 1
MOVE_Z == 2
MOVE_THETA == 3
MOVE_W == 4
HOME_OR_ZERO == 5
MOVETO_X == 6
MOVETO_Y == 7
MOVETO_Z == 8
SET_LIM == 9
TURN_ON_ILLUMINATION == 10
TURN_OFF_ILLUMINATION == 11
SET_ILLUMINATION == 12
SET_ILLUMINATION_LED_MATRIX == 13
ACK_JOYSTICK_BUTTON_PRESSED == 14
ANALOG_WRITE_ONBOARD_DAC == 15
SET_DAC80508_REFDIV_GAIN == 16
SET_ILLUMINATION_INTENSITY_FACTOR == 17
MOVETO_W == 18
SET_LIM_SWITCH_POLARITY == 20
CONFIGURE_STEPPER_DRIVER == 21
SET_MAX_VELOCITY_ACCELERATION == 22
SET_LEAD_SCREW_PITCH == 23
SET_OFFSET_VELOCITY == 24
CONFIGURE_STAGE_PID == 25
ENABLE_STAGE_PID == 26
DISABLE_STAGE_PID == 27
SET_HOME_SAFETY_MERGIN == 28
SET_PID_ARGUMENTS == 29
SEND_HARDWARE_TRIGGER == 30
SET_STROBE_DELAY == 31
SET_AXIS_DISABLE_ENABLE == 32
SET_TRIGGER_MODE == 33
SET_PIN_LEVEL == 41
INITFILTERWHEEL == 253
INITIALIZE == 254
RESET == 255

CommandCodes ==
    << MOVE_X, MOVE_Y, MOVE_Z, MOVE_THETA,
       MOVE_W, HOME_OR_ZERO, MOVETO_X, MOVETO_Y,
       MOVETO_Z, SET_LIM, TURN_ON_ILLUMINATION, TURN_OFF_ILLUMINATION,
       SET_ILLUMINATION, SET_ILLUMINATION_LED_MATRIX, ACK_JOYSTICK_BUTTON_PRESSED, ANALOG_WRITE_ONBOARD_DAC,
       SET_DAC80508_REFDIV_GAIN, SET_ILLUMINATION_INTENSITY_FACTOR, MOVETO_W, SET_LIM_SWITCH_POLARITY,
       CONFIGURE_STEPPER_DRIVER, SET_MAX_VELOCITY_ACCELERATION, SET_LEAD_SCREW_PITCH, SET_OFFSET_VELOCITY,
       CONFIGURE_STAGE_PID, ENABLE_STAGE_PID, DISABLE_STAGE_PID, SET_HOME_SAFETY_MERGIN,
       SET_PID_ARGUMENTS, SEND_HARDWARE_TRIGGER, SET_STROBE_DELAY, SET_AXIS_DISABLE_ENABLE,
       SET_TRIGGER_MODE, SET_PIN_LEVEL, INITFILTERWHEEL, INITIALIZE,
       RESET >>

\* command execution status, constants.h:60-62
COMPLETED_WITHOUT_ERRORS == 0
CMD_CHECKSUM_ERROR == 2

\* illumination source codes, constants.h:68-72
ILLUMINATION_SOURCE_405NM == 11
ILLUMINATION_SOURCE_488NM == 12
ILLUMINATION_SOURCE_638NM == 13
ILLUMINATION_SOURCE_561NM == 14
ILLUMINATION_SOURCE_730NM == 15

\* TTL outputs, constants.h:78-82
LASER_405nm == 1
LASER_488nm == 2
LASER_561nm == 3
LASER_638nm == 4
LASER_730nm == 5

\* DAC register addresses, constants.h:90-92
DAC8050x_DAC_ADDR == 8
DAC8050x_GAIN_ADDR == 4
DAC8050x_CONFIG_ADDR == 3

\* microseconds between two replies, constants.h:97
interval_send_pos_update == 10000

\* uint8_t crc8ccitt(const void *data, size_t size), utils/crc8.cpp: one
\* shift of val
Crc8Shift(val) ==
    IF val >= 128 THEN BitXor((val * 2) % 256, 7) ELSE (val * 2) % 256

RECURSIVE Crc8Bits(_, _)
Crc8Bits(val, n) == IF n = 0 THEN val ELSE Crc8Bits(Crc8Shift(val), n - 1)

\* the eight shifts that follow val ^= *pos++, tabulated
Crc8Table == [v \in Byte |-> Crc8Bits(v, 8)]

RECURSIVE Crc8From(_, _, _, _)
Crc8From(val, data, pos, size) ==
    IF pos >= size THEN val
    ELSE Crc8From(Crc8Table[BitXor(val, data[pos])], data, pos + 1, size)

crc8ccitt(data, size) == Crc8From(0, data, 0, size)

\* an entry of cmd_map that was never assigned: a null pointer
NULL == "null"

\* the RESET handler assigned to the entry of INITIALIZE
InitCallbacksOverwrites(map) ==
    [map EXCEPT ![TURN_ON_ILLUMINATION] = "callback_turn_on_illumination",
                ![TURN_OFF_ILLUMINATION] = "callback_turn_off_illumination",
                ![SET_ILLUMINATION] = "callback_set_illumination",
                ![SET_ILLUMINATION_INTENSITY_FACTOR] =
                    "callback_set_illumination_intensity_factor",
                ![SET_DAC80508_REFDIV_GAIN] = "callback_set_dac_gain",
                ![ANALOG_WRITE_ONBOARD_DAC] = "callback_analog_write_dac",
                ![INITIALIZE] = "callback_initialize",
                ![INITIALIZE] = "callback_reset"]

\* void init_callbacks(): the assignments in their order
init_callbacks(map) ==
    [map EXCEPT ![TURN_ON_ILLUMINATION] = "callback_turn_on_illumination",
                ![TURN_OFF_ILLUMINATION] = "callback_turn_off_illumination",
                ![SET_ILLUMINATION] = "callback_set_illumination",
                ![SET_ILLUMINATION_INTENSITY_FACTOR] =
                    "callback_set_illumination_intensity_factor",
                ![SET_DAC80508_REFDIV_GAIN] = "callback_set_dac_gain",
                ![ANALOG_WRITE_ONBOARD_DAC] = "callback_analog_write_dac",
                ![INITIALIZE] = "callback_initialize",
                ![RESET] = "callback_reset"]

\* CommandCallback cmd_map[256] = {0}, globals.cpp:24, after init_callbacks()
cmd_map == init_callbacks([command_type \in Byte |-> NULL])

\* the pin and the DAC channel of an illumination source, 0 and -1 for a
\* source the switch statements ignore (illumination.cpp:71-91, 132-152)
LaserOf(source) ==
    CASE source = ILLUMINATION_SOURCE_405NM -> LASER_405nm
      [] source = ILLUMINATION_SOURCE_488NM -> LASER_488nm
      [] source = ILLUMINATION_SOURCE_561NM -> LASER_561nm
      [] source = ILLUMINATION_SOURCE_638NM -> LASER_638nm
      [] source = ILLUMINATION_SOURCE_730NM -> LASER_730nm
      [] OTHER -> 0

DacChannelOf(source) ==
    CASE source = ILLUMINATION_SOURCE_405NM -> 0
      [] source = ILLUMINATION_SOURCE_488NM -> 1
      [] source = ILLUMINATION_SOURCE_561NM -> 2
      [] source = ILLUMINATION_SOURCE_638NM -> 3
      [] source = ILLUMINATION_SOURCE_730NM -> 4
      [] OTHER -> -1

\* SPI.transfer(addr); SPI.transfer16(value): the DAC registers written so far
SpiWrite(s, addr, value) ==
    [s EXCEPT !.dac = ((addr % 256) :> value) @@ s.dac]

set_dac_gain(s, div, gains) == SpiWrite(s, DAC8050x_GAIN_ADDR, (div * 256 + gains) % 65536)

set_dac_output(s, channel, value) == SpiWrite(s, DAC8050x_DAC_ADDR + channel, value)

init_dac(s) == set_dac_gain(SpiWrite(s, DAC8050x_CONFIG_ADDR, 0), 0, 128)
\* only the laser of the selected source switched off
TurnOffSelectedLaser(s) ==
    [s EXCEPT !.pins = IF LaserOf(s.illumination_source) = 0 THEN @
                       ELSE [@ EXCEPT ![LaserOf(s.illumination_source)] = LOW]]

turn_off_all_lasers(s) ==
    [s EXCEPT !.pins = [pin \in DOMAIN s.pins |-> LOW]]

\* void turn_on_illumination() of the TTL-only build, illumination.cpp:67-92
ttl_turn_on_illumination(s) ==
    [s EXCEPT !.illumination_is_on = TRUE,
              !.pins = IF LaserOf(s.illumination_source) = 0 THEN @
                       ELSE [@ EXCEPT ![LaserOf(s.illumination_source)] = HIGH]]

\* void turn_off_illumination() of the TTL-only build, illumination.cpp:94-118
ttl_turn_off_illumination(s) ==
    [s EXCEPT !.illumination_is_on = FALSE,
              !.pins = IF LaserOf(s.illumination_source) = 0 THEN @
                       ELSE [@ EXCEPT ![LaserOf(s.illumination_source)] = LOW]]

\* void set_illumination(int source, uint16_t intensity);
\* illumination_intensity_factor is kept in hundredths, as the byte it was
\* set from, and the product is cut to an integer as the conversion to
\* uint16_t does
set_illumination(s, source, intensity) ==
    LET a == [s EXCEPT !.illumination_source = source,
                       !.illumination_intensity =
                           (intensity * s.illumination_intensity_factor) \div 100]
        b == IF DacChannelOf(source) = -1 THEN a
             ELSE set_dac_output(a, DacChannelOf(source), a.illumination_intensity)
    IN IF b.illumination_is_on THEN ttl_turn_on_illumination(b) ELSE b

\* p_callback(), commands.cpp:26-106: the body of the function pointed to
Invoke(s, p_callback) ==
    CASE p_callback = "callback_default" -> s
      [] p_callback = "callback_turn_on_illumination" -> ttl_turn_on_illumination(s)
      [] p_callback = "callback_turn_off_illumination" -> ttl_turn_off_illumination(s)
      [] p_callback = "callback_set_illumination" ->
            set_illumination(s, s.buffer_rx[2], s.buffer_rx[3] * 256 + s.buffer_rx[4])
      [] p_callback = "callback_set_illumination_intensity_factor" ->
            [s EXCEPT !.illumination_intensity_factor =
                          IF s.buffer_rx[2] > 100 THEN 100 ELSE s.buffer_rx[2]]
      [] p_callback = "callback_set_dac_gain" ->
            set_dac_gain(s, s.buffer_rx[2], s.buffer_rx[3])
      [] p_callback = "callback_analog_write_dac" ->
            set_dac_output(s, s.buffer_rx[2], s.buffer_rx[3] * 256 + s.buffer_rx[4])
      [] p_callback = "callback_initialize" ->
            init_dac(turn_off_all_lasers(
                [s EXCEPT !.illumination_source = 0,
                          !.illumination_intensity = 0,
                          !.illumination_is_on = FALSE]))
      [] p_callback = "callback_reset" ->
            [turn_off_all_lasers([s EXCEPT !.cmd_id = 0])
                EXCEPT !.illumination_source = 0,
                       !.illumination_intensity = 0,
                       !.illumination_is_on = FALSE]

\* the illumination variables, the laser outputs and the DAC registers
Hardware(s) ==
    << s.illumination_source, s.illumination_intensity,
       s.illumination_intensity_factor, s.illumination_is_on, s.pins, s.dac >>

\* one entry of the history per byte read and per reply written
TtlEntry(kind, byte, s, checked, called, flushed, changed, reply) ==
    [kind |-> kind, byte |-> byte, ptr |-> s.buffer_rx_ptr, checked |-> checked,
     frame |-> IF checked THEN Prefix(s.buffer_rx, CMD_LENGTH) ELSE << >>,
     error |-> s.checksum_error, cmd_id |-> s.cmd_id, called |-> called,
     flushed |-> flushed, left |-> Len(s.serial_rx), changed |-> changed,
     reply |-> reply]

\* a wrong checksum flagged, but the command handled all the same and the
\* bytes that wait left where they are
TtlFrameIgnoresChecksum(s) ==
    LET a == [s EXCEPT !.buffer_rx_ptr = 0, !.cmd_id = s.buffer_rx[0]]
        checksum == crc8ccitt(a.buffer_rx, CMD_LENGTH - 1)
        ok == [a EXCEPT !.checksum_error = (checksum # a.buffer_rx[CMD_LENGTH - 1])]
        p_callback == cmd_map[ok.buffer_rx[1]]
        called == IF p_callback = NULL THEN "callback_default" ELSE p_callback
        done == Invoke(ok, called)
    IN [done EXCEPT !.trace = Append(@,
           TtlEntry("byte", a.buffer_rx[CMD_LENGTH - 1], done, TRUE, called, 0,
                    Hardware(done) # Hardware(s), << >>))]

\* a command without a handler turned away as if its checksum were wrong
TtlFrameRejectsUnregistered(s) ==
    LET a == [s EXCEPT !.buffer_rx_ptr = 0, !.cmd_id = s.buffer_rx[0]]
        checksum == crc8ccitt(a.buffer_rx, CMD_LENGTH - 1)
    IN IF checksum # a.buffer_rx[CMD_LENGTH - 1] \/ cmd_map[a.buffer_rx[1]] = NULL
       THEN LET flushed == [a EXCEPT !.checksum_error = TRUE, !.serial_rx = << >>]
            IN [flushed EXCEPT !.trace = Append(@,
                   TtlEntry("byte", a.buffer_rx[CMD_LENGTH - 1], flushed, TRUE, "none",
                            Len(a.serial_rx), FALSE, << >>))]
       ELSE LET ok == [a EXCEPT !.checksum_error = FALSE]
                called == cmd_map[ok.buffer_rx[1]]
                done == Invoke(ok, called)
            IN [done EXCEPT !.trace = Append(@,
                   TtlEntry("byte", a.buffer_rx[CMD_LENGTH - 1], done, TRUE, called, 0,
                            Hardware(done) # Hardware(s), << >>))]

\* serial_communication.cpp:15-45: the eighth byte is in
TtlFrame(s) ==
    LET a == [s EXCEPT !.buffer_rx_ptr = 0, !.cmd_id = s.buffer_rx[0]]
        checksum == crc8ccitt(a.buffer_rx, CMD_LENGTH - 1)
    IN IF checksum # a.buffer_rx[CMD_LENGTH - 1]
       THEN LET flushed == [a EXCEPT !.checksum_error = TRUE, !.serial_rx = << >>]
            IN [flushed EXCEPT !.trace = Append(@,
                   TtlEntry("byte", a.buffer_rx[CMD_LENGTH - 1], flushed, TRUE, "none",
                            Len(a.serial_rx), FALSE, << >>))]
       ELSE LET ok == [a EXCEPT !.checksum_error = FALSE]
                p_callback == cmd_map[ok.buffer_rx[1]]
                called == IF p_callback = NULL THEN "callback_default" ELSE p_callback
                done == Invoke(ok, called)
            IN [done EXCEPT !.trace = Append(@,
                   TtlEntry("byte", a.buffer_rx[CMD_LENGTH - 1], done, TRUE, called, 0,
                            Hardware(done) # Hardware(s), << >>))]
\* an unfinished command dropped when no further byte has arrived
TtlReadDropsPartial(s) ==
    LET byte == Head(s.serial_rx)
        a == [s EXCEPT !.serial_rx = Tail(@),
                       !.buffer_rx[s.buffer_rx_ptr] = byte,
                       !.buffer_rx_ptr = @ + 1]
    IN IF a.buffer_rx_ptr = CMD_LENGTH
       THEN TtlFrame(a)
       ELSE [a EXCEPT !.buffer_rx_ptr = IF a.serial_rx = << >> THEN 0 ELSE @,
                      !.trace = Append(@,
                TtlEntry("byte", byte, a, FALSE, "none", 0, FALSE, << >>))]

\* the frame taken as complete one byte early
TtlReadChecksAtSeven(s) ==
    LET byte == Head(s.serial_rx)
        a == [s EXCEPT !.serial_rx = Tail(@),
                       !.buffer_rx[s.buffer_rx_ptr] = byte,
                       !.buffer_rx_ptr = @ + 1]
    IN IF a.buffer_rx_ptr = CMD_LENGTH - 1
       THEN TtlFrame(a)
       ELSE [a EXCEPT !.trace = Append(@,
                TtlEntry("byte", byte, a, FALSE, "none", 0, FALSE, << >>))]

\* serial_communication.cpp:12-13: one turn of the while loop
TtlRead(s) ==
    LET byte == Head(s.serial_rx)
        a == [s EXCEPT !.serial_rx = Tail(@),
                       !.buffer_rx[s.buffer_rx_ptr] = byte,
                       !.buffer_rx_ptr = @ + 1]
    IN IF a.buffer_rx_ptr = CMD_LENGTH
       THEN TtlFrame(a)
       ELSE [a EXCEPT !.trace = Append(@,
                TtlEntry("byte", byte, a, FALSE, "none", 0, FALSE, << >>))]

\* void process_serial_message()
RECURSIVE process_serial_message(_)
process_serial_message(s) ==
    IF s.serial_rx = << >> THEN s ELSE process_serial_message(TtlRead(s))

\* the checksum error reported once and then forgotten
SendPositionUpdateClearsError(s) ==
    IF s.us_since_last_pos_update > interval_send_pos_update
    THEN LET status == IF s.checksum_error THEN CMD_CHECKSUM_ERROR
                       ELSE COMPLETED_WITHOUT_ERRORS
             buffer_tx == [i \in 0..(MSG_LENGTH - 1) |->
                             IF i = 0 THEN s.cmd_id
                             ELSE IF i = 1 THEN status
                             ELSE 0]
             tx_checksum == crc8ccitt(buffer_tx, MSG_LENGTH - 1)
             out == Prefix([buffer_tx EXCEPT ![MSG_LENGTH - 1] = tx_checksum], MSG_LENGTH)
         IN [s EXCEPT !.us_since_last_pos_update = 0,
                      !.checksum_error = FALSE,
                      !.serial_tx = Append(@, out),
                      !.trace = Append(@,
                          TtlEntry("reply", 0, s, FALSE, "none", 0, FALSE, out))]
    ELSE s

\* void send_position_update()
send_position_update(s) ==
    IF s.us_since_last_pos_update > interval_send_pos_update
    THEN LET status == IF s.checksum_error THEN CMD_CHECKSUM_ERROR
                       ELSE COMPLETED_WITHOUT_ERRORS
             buffer_tx == [i \in 0..(MSG_LENGTH - 1) |->
                             IF i = 0 THEN s.cmd_id
                             ELSE IF i = 1 THEN status
                             ELSE 0]
             tx_checksum == crc8ccitt(buffer_tx, MSG_LENGTH - 1)
             out == Prefix([buffer_tx EXCEPT ![MSG_LENGTH - 1] = tx_checksum], MSG_LENGTH)
         IN [s EXCEPT !.us_since_last_pos_update = 0,
                      !.serial_tx = Append(@, out),
                      !.trace = Append(@,
                          TtlEntry("reply", 0, s, FALSE, "none", 0, FALSE, out))]
    ELSE s

\* globals.cpp:8-24 as initialised, the laser pins as init_laser_pins leaves
\* them, nothing on the serial line
TtlPowerOn ==
    [buffer_rx |-> [i \in 0..(CMD_LENGTH - 1) |-> 0],
     buffer_rx_ptr |-> 0,
     cmd_id |-> 0,
     checksum_error |-> FALSE,
     us_since_last_pos_update |-> 0,
     illumination_source |-> 0,
     illumination_intensity |-> 0,
     illumination_intensity_factor |-> 100,
     illumination_is_on |-> FALSE,
     pins |-> [pin \in LASER_405nm..LASER_730nm |-> LOW],
     dac |-> << >>,
     serial_rx |-> << >>,
     serial_tx |-> << >>,
     trace |-> << >>]

InitTtl ==
    /\ ttl = TtlPowerOn
    /\ ttl_host = [units |-> << >>, wire |-> << >>]

InitStrobe ==
    /\ illumination_is_on = FALSE
    /\ control_strobe = [c \in Channels |-> FALSE]
    /\ strobe_output_level = [c \in Channels |-> LOW]
    /\ strobe_on = [c \in Channels |-> FALSE]
    /\ strobe_delay = [c \in Channels |-> 0]
    /\ illumination_on_time = [c \in Channels |-> 0]
    /\ timestamp_trigger_rising_edge = [c \in Channels |-> 0]
    /\ micros = 0
    /\ pulses = << >>

Init ==
    /\ InitFirmware
    /\ InitGlobalsIdle
    /\ InitStrobe
    /\ InitTtl
    /\ call = NoCall

---------------------------------------------------------------------------
(* Actions *)

\* the host writes one unit to the serial line
HostWrite(u) ==
    /\ Len(units) < MaxUnits
    /\ units' = Append(units, u)
    /\ serial_rx' = serial_rx \o u.bytes
    /\ UNCHANGED << rx_state, rx_buffer, rx_payload_length, rx_payload_received,
                    rx_crc_received, illumination_channel_states, current_led_pattern,
                    mcu_cmd_execution_in_progress, commanded_movement_in_progress,
                    is_homing, is_homing_XY, home_found, is_preparing_for_homing,
                    trigger_mode, use_encoder, encoder_pos, tmc_position,
                    commanded_target_position, joystick_delta_x, joystick_delta_y,
                    joystick_button_pressed, serial_tx, log, dispatched, call,
                    strobeVars, ttlVars >>

HostWriteStream ==
    /\ \A i \in 1..Len(units) : units[i].payload \notin LongPayloads
    /\ \E u \in StreamUnits : HostWrite(u)

\* a frame of the largest payload, or of one whose length needs both length
\* bytes, sent to the freshly initialised receiver
HostWriteLong ==
    /\ units = << >>
    /\ \E p \in LongPayloads : HostWrite(GoodUnit(p))

HostWriteAround == \E u \in FlipUnits : HostWrite(u)

\* one frame of the run has one bit flipped on the way
HostWriteCorrupt ==
    /\ \A i \in 1..Len(units) : units[i].kind # "corrupt"
    /\ \E u \in CorruptUnits : HostWrite(u)

\* one call from loop(): n bytes have arrived and the while loop reads them all
protocol_v2_process ==
    /\ serial_rx # << >>
    /\ \E n \in (1..MaxChunk) \cup {Len(serial_rx)} :
        /\ n <= Len(serial_rx)
        /\ LET after == ProcessCall(Machine, n)
           IN Install(after)
    /\ UNCHANGED << units, call, strobeVars, ttlVars >>

Next == HostWriteStream \/ HostWriteLong \/ protocol_v2_process

\* one thing that happened to the firmware between two snapshots
EventOf(k, p) == [kind |-> k, payload |-> p, bytes |-> << >>, field |-> "none"]

\* a CRC-valid command reaches process_command
SnapCommand ==
    /\ Len(units) < MaxEvents
    /\ \E p \in SnapPayloads :
          /\ LET after == process_command(Machine, ArrayOf(p), Len(p))
             IN Install(after)
          /\ units' = Append(units, EventOf("command", p))
    /\ UNCHANGED << call, strobeVars, ttlVars >>

\* the motion and homing code writes one flag of one axis
MotionActivity ==
    /\ Len(units) < MaxEvents
    /\ \E a \in Axes :
          \/ /\ commanded_movement_in_progress' =
                    [commanded_movement_in_progress EXCEPT ![a] = ~@]
             /\ UNCHANGED is_homing
          \/ /\ is_homing' = [is_homing EXCEPT ![a] = ~@]
             /\ UNCHANGED commanded_movement_in_progress
    /\ units' = Append(units, EventOf("motion", << >>))
    /\ UNCHANGED << rx_state, rx_buffer, rx_payload_length, rx_payload_received,
                    rx_crc_received, illumination_channel_states, current_led_pattern,
                    mcu_cmd_execution_in_progress, is_homing_XY, home_found,
                    is_preparing_for_homing, trigger_mode, use_encoder, encoder_pos,
                    tmc_position, commanded_target_position, joystick_delta_x,
                    joystick_delta_y, joystick_button_pressed, serial_rx, serial_tx,
                    log, dispatched, call, strobeVars, ttlVars >>

\* the main loop switches the illumination on or off
IlluminationCall ==
    /\ Len(units) < MaxEvents
    /\ \/ /\ InstallStrobe(turn_on_illumination(StrobeMachine))
          /\ units' = Append(units, EventOf("illumination", << 1 >>))
       \/ /\ InstallStrobe(turn_off_illumination(StrobeMachine))
          /\ units' = Append(units, EventOf("illumination", << 0 >>))
    /\ UNCHANGED << rx_state, rx_buffer, rx_payload_length, rx_payload_received,
                    rx_crc_received, illumination_channel_states, current_led_pattern,
                    mcu_cmd_execution_in_progress, commanded_movement_in_progress,
                    is_homing, is_homing_XY, home_found, is_preparing_for_homing,
                    trigger_mode, use_encoder, encoder_pos, tmc_position,
                    commanded_target_position, joystick_delta_x, joystick_delta_y,
                    joystick_button_pressed, serial_rx, serial_tx, log, dispatched,
                    call, ttlVars >>

\* any combination of the three motion flags on every axis
InitSnap ==
    /\ InitFirmware
    /\ InitStrobe
    /\ InitTtl
    /\ call = NoCall
    /\ illumination_channel_states = 0
    /\ current_led_pattern = 0
    /\ is_homing \in { FlagsOf(P) : P \in FlagPatterns }
    /\ is_preparing_for_homing \in { FlagsOf(P) : P \in FlagPatterns }
    /\ commanded_movement_in_progress \in { FlagsOf(P) : P \in FlagPatterns }
    /\ home_found \in { FlagsOf({}), FlagsOf({0, 3}) }
    /\ mcu_cmd_execution_in_progress = TRUE
    /\ is_homing_XY = FALSE
    /\ trigger_mode = 1
    /\ use_encoder = [a \in Axes |-> a = 0]
    /\ encoder_pos = [a \in Axes |-> -2 - a]
    /\ tmc_position = [a \in Axes |-> 70000 + a]
    /\ commanded_target_position = [a \in Axes |-> 65536 * PACKET_HEADER_1 + 256 * PACKET_HEADER_0 + a]
    /\ joystick_delta_x = 3
    /\ joystick_delta_y = -4
    /\ joystick_button_pressed = FALSE

NextSnap == SnapCommand \/ MotionActivity \/ IlluminationCall

SpecSnap == InitSnap /\ [][NextSnap]_vars

\* the first command after start-up, answered from any of the snapshots
WireCommand ==
    /\ serial_tx = << >>
    /\ \E p \in WirePayloads :
          /\ LET after == process_command(Machine, ArrayOf(p), Len(p))
             IN Install(after)
          /\ units' = Append(units, EventOf("command", p))
    /\ UNCHANGED << call, strobeVars, ttlVars >>

NextWire == WireCommand

SpecWire == InitSnap /\ [][NextWire]_vars

\* what the strobe timer handler leaves alone
protocolVars == << rx_state, rx_buffer, rx_payload_length, rx_payload_received,
                   rx_crc_received, illumination_channel_states, current_led_pattern,
                   mcu_cmd_execution_in_progress, commanded_movement_in_progress,
                   is_homing, is_homing_XY, home_found, is_preparing_for_homing,
                   trigger_mode, use_encoder, encoder_pos, tmc_position,
                   commanded_target_position, joystick_delta_x, joystick_delta_y,
                   joystick_button_pressed, serial_rx, serial_tx, units, log,
                   dispatched, call >>

\* pulse length and delay a channel is armed with, in microseconds
StrobeSettings ==
    { [on_time |-> 10000, delay |-> 0],
      [on_time |-> 10000, delay |-> 20000],
      [on_time |-> SHORT_PULSE_LIMIT, delay |-> 0],
      [on_time |-> 40000, delay |-> 0],
      [on_time |-> 40000, delay |-> 20000] }

\* the entries of the history that are of kind what and for channel c
Entries(what, c) ==
    { i \in 1..Len(pulses) : pulses[i].what = what /\ pulses[i].by = c }

\* the channels armed so far
Armings == { i \in 1..Len(pulses) : pulses[i].what = "arm" }

\* the main loop arms channel c on a trigger edge: pulse length and delay
\* recorded, the edge stamped with the time, control_strobe set. A channel
\* still armed or still HIGH is not armed again.
ArmStrobe(s, c, setting) ==
    [s EXCEPT !.control_strobe[c] = TRUE,
              !.strobe_delay[c] = setting.delay,
              !.illumination_on_time[c] = setting.on_time,
              !.timestamp_trigger_rising_edge[c] = s.micros,
              !.pulses = Append(@, [what |-> "arm", at |-> s.micros, by |-> c])]

Arm ==
    /\ Cardinality(Armings) < MaxArms
    /\ micros <= MaxArmMicros
    /\ \E c \in Channels, setting \in StrobeSettings :
          /\ ~control_strobe[c]
          /\ strobe_output_level[c] = LOW
          /\ InstallStrobe(ArmStrobe(StrobeMachine, c, setting))
    /\ UNCHANGED << protocolVars, ttlVars >>

\* the strobe timer fires one period after the handler last returned
TimerTick ==
    /\ micros < MaxMicros
    /\ LET entered == [StrobeMachine EXCEPT !.micros = @ + TickPeriod]
           left == ISR_strobeTimer(entered)
       IN InstallStrobe(left)
    /\ UNCHANGED << protocolVars, ttlVars >>

NextStrobe == Arm \/ TimerTick

SpecStrobe == Init /\ [][NextStrobe]_vars
\* a step in which the strobe timer fired, told by the clock: the handler
\* is entered one period on and holds the processor for at most one short
\* pulse per channel; no other step of SpecStrobe lets time pass
TimerFired ==
    /\ micros < MaxMicros
    /\ micros' \in (micros + TickPeriod)..(micros + TickPeriod + 6 * SHORT_PULSE_LIMIT)

\* the strobe timer keeps firing
SpecStrobeFair == SpecStrobe /\ WF_micros(TimerFired)

\* the main loop arms channel 0 or 5 between its other work
ArmEvent ==
    /\ Len(units) < MaxEvents
    /\ \E c \in {0, 5} :
       \E setting \in { x \in StrobeSettings :
                           x.delay = 0 /\ x.on_time # SHORT_PULSE_LIMIT } :
          /\ ~control_strobe[c]
          /\ strobe_output_level[c] = LOW
          /\ InstallStrobe(ArmStrobe(StrobeMachine, c, setting))
          /\ units' = Append(units, EventOf("arm", << c >>))
    /\ UNCHANGED << rx_state, rx_buffer, rx_payload_length, rx_payload_received,
                    rx_crc_received, illumination_channel_states, current_led_pattern,
                    mcu_cmd_execution_in_progress, commanded_movement_in_progress,
                    is_homing, is_homing_XY, home_found, is_preparing_for_homing,
                    trigger_mode, use_encoder, encoder_pos, tmc_position,
                    commanded_target_position, joystick_delta_x, joystick_delta_y,
                    joystick_button_pressed, serial_rx, serial_tx, log, dispatched,
                    call, ttlVars >>

\* the main loop at work while the strobe timer fires
NextOwner == ArmEvent \/ SnapCommand \/ IlluminationCall \/ TimerTick

SpecOwner == Init /\ [][NextOwner]_vars

\* the call at protocol_v2.cpp:143 on its own, for any payload
CallProcessCommand ==
    /\ ~call.done
    /\ LET after == process_command(Machine, ArrayOf(call.payload \o call.stale),
                                    Len(call.payload))
       IN Install(after)
    /\ call' = [call EXCEPT !.done = TRUE]
    /\ UNCHANGED << units, strobeVars, ttlVars >>

InitCmd ==
    /\ InitFirmware
    /\ InitStrobe
    /\ InitTtl
    /\ \/ InitGlobalsIdle /\ call \in AllCalls
       \/ InitGlobalsBusy /\ call \in AllCalls \cup LongCalls

NextCmd == CallProcessCommand

SpecCmd == InitCmd /\ [][NextCmd]_vars

Spec == Init /\ [][Next]_vars
HostWriteAbort == \E u \in AbortUnits : HostWrite(u)

NextAbort == HostWriteAbort \/ protocol_v2_process

SpecAbort == Init /\ [][NextAbort]_vars

NextFlip == HostWriteAround \/ HostWriteCorrupt \/ protocol_v2_process

SpecFlip == Init /\ [][NextFlip]_vars

---------------------------------------------------------------------------
(* Reading the history *)

\* the bytes read so far, in order
Fed == [i \in 1..Len(log) |-> log[i].byte]

RECURSIVE UnitStart(_)
UnitStart(k) == IF k = 1 THEN 1 ELSE UnitStart(k - 1) + Len(units[k - 1].bytes)

UnitEnd(k) == UnitStart(k) + Len(units[k].bytes) - 1

\* every byte of unit k has been read
UnitRead(k) == k \in 1..Len(units) /\ UnitEnd(k) <= Len(log)

\* the process_command calls made while bytes a..b were read
DispatchedIn(a, b) == { i \in 1..Len(dispatched) : dispatched[i].at \in a..b }

\* responses written before byte i was read, and once it was
SentBefore(i) == IF i = 1 THEN 0 ELSE log[i - 1].nsent

SentIn(a, b) == log[b].nsent - SentBefore(a)

\* the machine protocol_v2_init leaves, with the given bytes on the line
FreshMachine(bytes) ==
    [rx_state |-> "RX_WAIT_HEADER_0",
     rx_buffer |-> [i \in 0..(RX_BUFFER_SIZE - 1) |-> 0],
     rx_payload_length |-> 0, rx_payload_received |-> 0, rx_crc_received |-> 0,
     illumination_channel_states |-> 0, current_led_pattern |-> 0,
     mcu_cmd_execution_in_progress |-> FALSE,
     commanded_movement_in_progress |-> [a \in Axes |-> FALSE],
     is_homing |-> [a \in Axes |-> FALSE], is_homing_XY |-> FALSE,
     home_found |-> [a \in Axes |-> FALSE],
     is_preparing_for_homing |-> [a \in Axes |-> FALSE],
     trigger_mode |-> 0,
     use_encoder |-> [a \in Axes |-> FALSE], encoder_pos |-> [a \in Axes |-> 0],
     tmc_position |-> [a \in Axes |-> 0],
     commanded_target_position |-> [a \in Axes |-> 0],
     joystick_delta_x |-> 0, joystick_delta_y |-> 0,
     joystick_button_pressed |-> FALSE,
     serial_rx |-> bytes, serial_tx |-> << >>,
     log |-> << >>, dispatched |-> << >>]

---------------------------------------------------------------------------
(* Claims *)

\* C1: the bytes read so far, however they were split over the calls of
\* protocol_v2_process, have left the receiver statics, the payloads
\* dispatched (and where in the stream), the responses written and the state
\* after every byte exactly as one call reading them all as one block does.
C1_ChunkIndependent ==
    LET block == ProcessCall(FreshMachine(Fed), Len(log))
    IN /\ rx_state = block.rx_state
       /\ rx_buffer = block.rx_buffer
       /\ rx_payload_length = block.rx_payload_length
       /\ rx_payload_received = block.rx_payload_received
       /\ rx_crc_received = block.rx_crc_received
       /\ dispatched = block.dispatched
       /\ serial_tx = block.serial_tx
       /\ [i \in 1..Len(log) |-> log[i].post] = [i \in 1..Len(log) |-> block.log[i].post]

\* a call has returned between the two CRC bytes of a second frame, after
\* the first frame was dispatched
C1_Witness ==
    /\ Len(units) = 2
    /\ units[2].kind = "good"
    /\ Len(dispatched) = 1
    /\ rx_state = "RX_WAIT_CRC_1"
    /\ Len(serial_rx) = 1

\* C2: a well-formed frame of payload p whose first byte finds the receiver
\* in WAIT_HEADER_0 causes exactly one process_command call while its bytes
\* are read, on its last byte, with payload p and length Len(p), and leaves
\* the receiver in WAIT_HEADER_0.
C2_GoodFrameDispatched ==
    \A k \in 1..Len(units) :
        (units[k].kind = "good" /\ UnitRead(k)
         /\ log[UnitStart(k)].pre = "RX_WAIT_HEADER_0")
        => /\ Cardinality(DispatchedIn(UnitStart(k), UnitEnd(k))) = 1
           /\ \A i \in DispatchedIn(UnitStart(k), UnitEnd(k)) :
                 /\ dispatched[i].at = UnitEnd(k)
                 /\ dispatched[i].payload = units[k].payload
                 /\ dispatched[i].length = Len(units[k].payload)
           /\ log[UnitEnd(k)].post = "RX_WAIT_HEADER_0"

\* a 3-byte frame accepted after an earlier frame left its bytes in the buffer
C2_Witness ==
    /\ UnitRead(2)
    /\ units[1].kind = "good"
    /\ units[2].kind = "good"
    /\ Len(units[2].payload) = 3
    /\ Len(dispatched) = 2

\* the length a unit's two length bytes decode to
DecodedLength(u) == u.bytes[3] + 256 * u.bytes[4]

\* unit k is a frame with one bit flipped whose first byte found the receiver
\* in WAIT_HEADER_0, and all of it has been read
FlippedFromHeader0(k) ==
    /\ units[k].kind = "corrupt"
    /\ UnitRead(k)
    /\ log[UnitStart(k)].pre = "RX_WAIT_HEADER_0"

\* C3 as stated: whatever bit of the length, payload or CRC field is flipped,
\* no command is dispatched and no response is sent while the bytes of the
\* frame are read.
C3_AnyFlipRejected ==
    \A k \in 1..Len(units) :
        FlippedFromHeader0(k)
        => /\ DispatchedIn(UnitStart(k), UnitEnd(k)) = {}
           /\ SentIn(UnitStart(k), UnitEnd(k)) = 0

\* C3: a flipped bit of the payload or of the CRC field makes the CRC
\* comparison fail on the frame's last byte: nothing is dispatched, nothing
\* is sent and the receiver is back in WAIT_HEADER_0. A flipped bit of the
\* length field that makes the length larger (and at most 506) leaves the
\* receiver inside the frame at its last byte, nothing dispatched or sent.
C3_FlipRejected ==
    \A k \in 1..Len(units) :
        FlippedFromHeader0(k)
        => /\ units[k].field \in {"payload", "crc"}
              => /\ DispatchedIn(UnitStart(k), UnitEnd(k)) = {}
                 /\ SentIn(UnitStart(k), UnitEnd(k)) = 0
                 /\ log[UnitEnd(k) - 1].post = "RX_WAIT_CRC_1"
                 /\ log[UnitEnd(k)].post = "RX_WAIT_HEADER_0"
           /\ (/\ units[k].field = "length"
               /\ DecodedLength(units[k]) > Len(units[k].payload)
               /\ DecodedLength(units[k]) <= PACKET_MAX_PAYLOAD)
              => /\ DispatchedIn(UnitStart(k), UnitEnd(k)) = {}
                 /\ SentIn(UnitStart(k), UnitEnd(k)) = 0
                 /\ log[UnitEnd(k)].post \in
                        {"RX_WAIT_PAYLOAD", "RX_WAIT_CRC_0", "RX_WAIT_CRC_1"}

\* a frame with a bit of its CRC flipped has been read after a good frame
\* that left its payload in the buffer
C3_Witness ==
    /\ Len(units) = 2
    /\ units[1].kind = "good"
    /\ FlippedFromHeader0(2)
    /\ units[2].field = "crc"
    /\ Len(dispatched) = 1

\* byte i is the second length byte and completes a length of 0 or above 506
InvalidLengthAt(i) ==
    /\ i \in 2..Len(log)
    /\ log[i].pre = "RX_WAIT_LENGTH_1"
    /\ log[i - 1].pre = "RX_WAIT_LENGTH_0"
    /\ LET len == log[i - 1].byte + 256 * log[i].byte
       IN len = 0 \/ len > PACKET_MAX_PAYLOAD

\* C4: the second length byte of a length of 0 or above 506 takes the
\* receiver to WAIT_HEADER_0, writes nothing into the payload buffer, makes
\* no process_command call and sends no response; the byte after it is read
\* as a candidate header byte and is not stored either.
C4_InvalidLengthAborts ==
    \A i \in 1..Len(log) :
        InvalidLengthAt(i)
        => /\ log[i].post = "RX_WAIT_HEADER_0"
           /\ ~log[i].stored
           /\ log[i].ndisp = log[i - 1].ndisp
           /\ log[i].nsent = log[i - 1].nsent
           /\ i < Len(log)
              => /\ log[i + 1].pre = "RX_WAIT_HEADER_0"
                 /\ ~log[i + 1].stored
                 /\ log[i + 1].ndisp = log[i].ndisp
                 /\ log[i + 1].nsent = log[i].nsent

\* a length of 507 was read, and after it the bytes of a frame that was
\* accepted
C4_Witness ==
    \E i \in 2..Len(log) :
        /\ InvalidLengthAt(i)
        /\ log[i - 1].byte + 256 * log[i].byte = PACKET_MAX_PAYLOAD + 1
        /\ i < Len(log)
        /\ log[i].ndisp = 0
        /\ Len(dispatched) = 1

\* malformed input as the specification lists it: bytes that are no header, a header with
\* an invalid length, a frame with a flipped bit
Malformed(u) == u.kind \in {"garbage", "badlen", "corrupt"}

\* unit k, a well-formed frame, was dispatched on its last byte
AcceptedAtEnd(k) ==
    /\ Cardinality(DispatchedIn(UnitStart(k), UnitEnd(k))) = 1
    /\ \A i \in DispatchedIn(UnitStart(k), UnitEnd(k)) :
          /\ dispatched[i].at = UnitEnd(k)
          /\ dispatched[i].payload = units[k].payload
    /\ log[UnitEnd(k)].post = "RX_WAIT_HEADER_0"

\* C5 as stated: the well-formed frame that directly follows a malformed
\* unit is dispatched.
C5_NextFrameAccepted ==
    \A k \in 2..Len(units) :
        (units[k].kind = "good" /\ UnitRead(k) /\ Malformed(units[k - 1]))
        => AcceptedAtEnd(k)

\* a malformed unit that leaves the receiver scanning for a header when it
\* was read from WAIT_HEADER_0: bytes without the header pair, a header with
\* an invalid length, a frame with a bit of its payload or CRC flipped
LeavesScanning(u) ==
    \/ u.kind = "badlen"
    \/ u.kind = "corrupt" /\ u.field \in {"payload", "crc"}
    \/ /\ u.kind = "garbage"
       /\ \A i \in 1..(Len(u.bytes) - 1) :
             ~(u.bytes[i] = PACKET_HEADER_0 /\ u.bytes[i + 1] = PACKET_HEADER_1)

\* C5: a well-formed frame whose first byte finds the receiver in
\* WAIT_HEADER_0, or in WAIT_HEADER_1 after a 0xAA of the garbage before it,
\* is dispatched on its last byte; and that is the state bad header bytes, an
\* invalid length and a payload or CRC bit flip leave behind. (A flipped
\* length bit can leave the receiver inside a frame, and the next frame is
\* then consumed as payload.)
C5_Resynchronizes ==
    \A k \in 2..Len(units) :
        (units[k].kind = "good" /\ UnitRead(k) /\ Malformed(units[k - 1]))
        => /\ log[UnitStart(k)].pre \in {"RX_WAIT_HEADER_0", "RX_WAIT_HEADER_1"}
              => AcceptedAtEnd(k)
           /\ (/\ LeavesScanning(units[k - 1])
               /\ log[UnitStart(k - 1)].pre = "RX_WAIT_HEADER_0")
              => log[UnitStart(k)].pre \in {"RX_WAIT_HEADER_0", "RX_WAIT_HEADER_1"}

\* a frame accepted right after a stray 0xAA: its own 0xAA was read in
\* WAIT_HEADER_1
C5_Witness ==
    /\ Len(units) = 2
    /\ units[1].kind = "garbage"
    /\ units[2].kind = "good"
    /\ UnitRead(2)
    /\ log[UnitStart(2)].pre = "RX_WAIT_HEADER_1"
    /\ AcceptedAtEnd(2)

\* byte i is the last byte of a frame as the receiver delimits it (header,
\* length n, n payload bytes, two CRC bytes) and the CRC bytes of the stream
\* are the CRC-16 of its length and payload bytes
CrcValidFrameEndsAt(i) ==
    /\ log[i].pre = "RX_WAIT_CRC_1"
    /\ LET j == CHOOSE j \in 1..i : /\ log[j].pre = "RX_WAIT_LENGTH_0"
                                    /\ \A h \in (j + 1)..i : log[h].pre # "RX_WAIT_LENGTH_0"
           n == Fed[j] + 256 * Fed[j + 1]
           body == [h \in 0..(n + 1) |-> Fed[j + h]]
       IN /\ i = j + n + 3
          /\ crc16_ccitt(body, n + 2) = Fed[i - 1] + 256 * Fed[i]

\* C7: a response is written exactly on the last byte of a CRC-valid frame,
\* one for each; no other byte read (a byte that is no header, a length byte,
\* a payload byte, the last byte of a frame whose CRC differs) writes one, so
\* the responses sent number the CRC-valid frames received.
C7_ResponsesAreValidFrames ==
    /\ \A i \in 1..Len(log) :
          log[i].nsent - SentBefore(i) = IF CrcValidFrameEndsAt(i) THEN 1 ELSE 0
    /\ Len(serial_tx) = Cardinality({ i \in 1..Len(log) : CrcValidFrameEndsAt(i) })
    /\ Len(serial_tx) = Len(dispatched)

\* a frame with a flipped payload bit failed its CRC comparison and the good
\* frame after it was answered: one response for two frames
C7_Witness ==
    /\ Len(units) = 2
    /\ FlippedFromHeader0(1)
    /\ units[1].field = "payload"
    /\ units[2].kind = "good"
    /\ UnitRead(2)
    /\ serial_rx = << >>
    /\ Len(serial_tx) = 1
    /\ \E i \in 1..Len(log) : log[i].pre = "RX_WAIT_CRC_1" /\ ~CrcValidFrameEndsAt(i)

\* the response the call has written
Sent == serial_tx[Len(serial_tx)]

\* the firmware globals and the illumination state, which only a handler writes
Globals ==
    << illumination_channel_states, current_led_pattern,
       mcu_cmd_execution_in_progress, commanded_movement_in_progress,
       is_homing, is_homing_XY, home_found, is_preparing_for_homing, trigger_mode,
       use_encoder, encoder_pos, tmc_position, commanded_target_position,
       joystick_delta_x, joystick_delta_y, joystick_button_pressed >>

\* the command types process_command has a case for
HandledTypes == {CMD_GET_STATE, CMD_RESET, CMD_GET_VERSION}

\* C6: process_command, called with any payload (any id, any type, one byte
\* or more), has written exactly one response when it returns, and none
\* before it is called.
C6_OneResponsePerCall ==
    Len(serial_tx) = IF call.done THEN 1 ELSE 0

\* a 6-byte payload of a type without a handler has been answered
C6_Witness ==
    /\ call.done
    /\ Len(call.payload) = 6
    /\ call.payload[2] = CMD_MOVE_AXIS
    /\ Len(serial_tx) = 1

\* C8: for a payload of 2 bytes or more the cmd_id of the response is the
\* first byte of the payload, whatever the command type and the status.
C8_CmdIdEchoed ==
    (call.done /\ Len(call.payload) >= 2)
    => /\ Len(serial_tx) = 1
       /\ Sent.cmd_id = call.payload[1]

\* id 255 echoed on a rejected command, an id that differs from the status
\* and from the error code
C8_Witness ==
    /\ call.done
    /\ call.payload = << 255, CMD_SET_ILLUMINATION >>
    /\ Sent.cmd_id = 255
    /\ Sent.status = STATUS_REJECTED

\* C9: the call with a 1-byte payload writes exactly one response, with
\* cmd_id 0, status REJECTED and error ERR_PACKET_TOO_SHORT, and changes no
\* firmware global: the byte after the payload is not looked at, so no
\* handler runs, not even when that byte is CMD_RESET.
C9_TooShortRejected ==
    [][(~call.done /\ call'.done /\ Len(call.payload) < 2)
       => /\ Len(serial_tx') = Len(serial_tx) + 1
          /\ serial_tx'[Len(serial_tx')].cmd_id = 0
          /\ serial_tx'[Len(serial_tx')].status = STATUS_REJECTED
          /\ serial_tx'[Len(serial_tx')].error_code = ERR_PACKET_TOO_SHORT
          /\ Globals' = Globals]_vars

\* a 1-byte payload in front of a stale CMD_RESET byte was rejected while
\* the firmware was busy, and the firmware still is
C9_Witness ==
    /\ call.done
    /\ Len(call.payload) = 1
    /\ call.stale = << CMD_RESET >>
    /\ Sent.error_code = ERR_PACKET_TOO_SHORT
    /\ mcu_cmd_execution_in_progress
    /\ is_homing[0]

\* C10: a payload of 2 bytes or more whose type is none of GET_STATE, RESET
\* and GET_VERSION is answered with status REJECTED and error
\* ERR_INVALID_CMD, the cmd_id echoed, and no firmware global changes.
C10_UnknownRejected ==
    [][(~call.done /\ call'.done /\ Len(call.payload) >= 2
        /\ call.payload[2] \notin HandledTypes)
       => /\ Len(serial_tx') = Len(serial_tx) + 1
          /\ serial_tx'[Len(serial_tx')].cmd_id = call.payload[1]
          /\ serial_tx'[Len(serial_tx')].status = STATUS_REJECTED
          /\ serial_tx'[Len(serial_tx')].error_code = ERR_INVALID_CMD
          /\ Globals' = Globals]_vars

\* INITIALIZE, a type of the enumeration, rejected while the firmware was busy
C10_Witness ==
    /\ call.done
    /\ Len(call.payload) = 2
    /\ call.payload[2] = CMD_INITIALIZE
    /\ Sent.error_code = ERR_INVALID_CMD
    /\ trigger_mode = 1

\* C11: a process_command call for anything but a RESET of 2 bytes or more
\* (GET_STATE, GET_VERSION, a type without a handler, a 1-byte payload)
\* leaves every motion, homing, home-found, target-position, trigger and
\* illumination-tracking variable as it was.
C11_NoSideEffect ==
    [][(~call.done /\ call'.done
        /\ (Len(call.payload) < 2 \/ call.payload[2] # CMD_RESET))
       => Globals' = Globals]_vars

\* GET_STATE answered by a busy firmware that is still busy
C11_Witness ==
    /\ call.done
    /\ Len(call.payload) = 2
    /\ call.payload[2] = CMD_GET_STATE
    /\ Sent.status = STATUS_OK
    /\ mcu_cmd_execution_in_progress
    /\ commanded_movement_in_progress[1]
    /\ home_found[3]

\* event k is a command of the given type
IsCommand(k, type) ==
    /\ k \in 1..Len(units)
    /\ units[k].kind = "command"
    /\ units[k].payload[2] = type

\* the response to the command that is event k: every command is answered once
ResponseOf(k) ==
    serial_tx[Cardinality({ j \in 1..k : units[j].kind = "command" })]

\* a response that reports every axis IDLE and not homed, and no illumination
ReportsAllIdle(r) ==
    /\ \A a \in Axes : r.axes[a].state = AXIS_IDLE /\ r.axes[a].homed = 0
    /\ r.illum_on_mask = 0
    /\ r.led_pattern = 0

\* C12: whatever the flags were, right after a RESET the homing, preparing,
\* movement and home-found flags of all four axes are false and the
\* illumination mask and pattern are 0; the response to the RESET, and the
\* response to a GET_STATE that is the next thing to happen, report every
\* axis IDLE, homed 0, illumination mask 0.
C12_ResetClears ==
    \A k \in 1..Len(units) :
        IsCommand(k, CMD_RESET)
        => /\ ReportsAllIdle(ResponseOf(k))
           /\ k = Len(units)
              => /\ \A a \in Axes : /\ ~is_homing[a]
                                    /\ ~is_preparing_for_homing[a]
                                    /\ ~commanded_movement_in_progress[a]
                                    /\ ~home_found[a]
                 /\ illumination_channel_states = 0
                 /\ current_led_pattern = 0
           /\ IsCommand(k + 1, CMD_GET_STATE) => ReportsAllIdle(ResponseOf(k + 1))

\* a GET_STATE that reported a homed, homing axis, then a RESET
C12_Witness ==
    /\ Len(units) = 2
    /\ IsCommand(1, CMD_GET_STATE)
    /\ IsCommand(2, CMD_RESET)
    /\ serial_tx[1].axes[0].state = AXIS_HOMING
    /\ serial_tx[1].axes[0].homed = 1
    /\ ReportsAllIdle(serial_tx[2])

\* C13: in every response built, the state of each axis is HOMING when
\* is_homing or is_preparing_for_homing holds for it at that moment, else
\* MOVING when its movement is in progress, else IDLE, for all 8 combinations
\* of the three flags.
C13_MotionStatePrecedence ==
    [][Len(serial_tx') = Len(serial_tx) + 1
       => \A a \in Axes :
             serial_tx'[Len(serial_tx')].axes[a].state =
                 IF is_homing'[a] \/ is_preparing_for_homing'[a] THEN AXIS_HOMING
                 ELSE IF commanded_movement_in_progress'[a] THEN AXIS_MOVING
                 ELSE AXIS_IDLE]_vars

\* after a flag changed, a response reports X HOMING although it also moves,
\* Y MOVING and W IDLE
C13_Witness ==
    /\ Len(units) = 2
    /\ units[1].kind = "motion"
    /\ IsCommand(2, CMD_GET_STATE)
    /\ is_homing[0]
    /\ commanded_movement_in_progress[0]
    /\ serial_tx[1].axes[0].state = AXIS_HOMING
    /\ serial_tx[1].axes[1].state = AXIS_MOVING
    /\ serial_tx[1].axes[3].state = AXIS_IDLE

\* whether the illumination was on when event k happened: what the last
\* illumination call before it left
IlluminationAt(k) ==
    LET calls == { j \in 1..k : units[j].kind = "illumination" }
    IN /\ calls # {}
       /\ units[CHOOSE j \in calls : \A h \in calls : h <= j].payload = << 1 >>

\* C14 as stated: the illumination mask of every response tells whether the
\* illumination was on when the response was built.
C14_MaskIsIlluminationState ==
    \A k \in 1..Len(units) :
        units[k].kind = "command"
        => ((ResponseOf(k).illum_on_mask # 0) <=> IlluminationAt(k))

\* C15: every response written is 84 bytes on the wire: 0xAA, 0xBB, the
\* length 78 low byte first, the 78 bytes of the response structure, and the
\* CRC-16 of the length and structure bytes (not of the header) low byte
\* first; the frame receiver, fed these bytes from WAIT_HEADER_0, makes one
\* process_command call on the last byte, with exactly the 78 structure bytes.
C15_ResponseIsAFrame ==
    \A n \in 1..Len(serial_tx) :
        LET sent == packet(serial_tx[n])
            snapshot == ResponsePacketBytes(serial_tx[n])
            crc == crc16_ccitt(ArrayOf(<< RESPONSE_SIZE, 0 >> \o snapshot),
                               RESPONSE_SIZE + 2)
            fed == ProcessCall(FreshMachine(sent), Len(sent))
        IN /\ Len(snapshot) = RESPONSE_SIZE
           /\ \A i \in 1..RESPONSE_SIZE : snapshot[i] \in Byte
           /\ sent = << PACKET_HEADER_0, PACKET_HEADER_1, RESPONSE_SIZE, 0 >>
                     \o snapshot \o << crc % 256, crc \div 256 >>
           /\ fed.dispatched = << [at |-> PACKET_OVERHEAD + RESPONSE_SIZE,
                                   payload |-> snapshot,
                                   length |-> RESPONSE_SIZE] >>
           /\ fed.rx_state = "RX_WAIT_HEADER_0"

\* a response with negative and multi-byte positions and the header pair
\* in it has gone out: X reports encoder position -2 as FE FF FF FF
C15_Witness ==
    /\ Len(serial_tx) = 1
    /\ serial_tx[1].axes[0].position_usteps = -2
    /\ serial_tx[1].axes[1].position_usteps = 70001
    /\ serial_tx[1].joystick_delta_y = -4
    /\ SubSeq(packet(serial_tx[1]), 9, 12) = << 254, 255, 255, 255 >>
    /\ SubSeq(packet(serial_tx[1]), 14, 15) = << PACKET_HEADER_0, PACKET_HEADER_1 >>
    /\ Len(packet(serial_tx[1])) = 84

\* C16: the n-th response written answers the n-th process_command call and
\* is written while the last CRC byte of that frame is being handled, before
\* the next byte is read: after every byte as many responses are out as
\* calls were made, and a well-formed frame read from WAIT_HEADER_0 has its
\* response out on its last byte whatever follows it on the line.
C16_AnsweredInOrder ==
    /\ \A n \in 1..Len(dispatched) :
          /\ SentBefore(dispatched[n].at) = n - 1
          /\ log[dispatched[n].at].nsent = n
          /\ serial_tx[n].cmd_id =
                 IF dispatched[n].length >= 2 THEN dispatched[n].payload[1] ELSE 0
    /\ \A i \in 1..Len(log) : log[i].nsent = log[i].ndisp
    /\ \A k \in 1..Len(units) :
          (units[k].kind = "good" /\ UnitRead(k)
           /\ log[UnitStart(k)].pre = "RX_WAIT_HEADER_0")
          => log[UnitEnd(k)].nsent = SentBefore(UnitEnd(k)) + 1

\* RESET then GET_STATE back to back on the line: both read, the RESET
\* answered on its last byte, the GET_STATE answered second
C16_Witness ==
    /\ Len(units) = 2
    /\ units[1].payload = << 18, CMD_RESET >>
    /\ units[2].payload = << 17, CMD_GET_STATE >>
    /\ Len(log) = UnitEnd(2)
    /\ Len(dispatched) = 2
    /\ dispatched[1].at = UnitEnd(1)
    /\ Len(serial_tx) = 2
    /\ serial_tx[1].cmd_id = 18
    /\ serial_tx[2].cmd_id = 17

\* channel c was armed exactly once, at entry ArmedAt(c) of the history
ArmedOnce(c) == Cardinality(Entries("arm", c)) = 1

ArmedAt(c) == CHOOSE i \in Entries("arm", c) : TRUE

\* the looks of the handler at channel c at which its delay had elapsed
DueChecks(c) ==
    { i \in Entries("check", c) :
         pulses[i].at - pulses[ArmedAt(c)].at >= strobe_delay[c] }

\* the first of them
FirstDue(c) == CHOOSE i \in DueChecks(c) : \A j \in DueChecks(c) : i <= j

\* C17: a channel armed once with a pulse of at most 30 ms is switched on
\* once and off once, both inside the run of the handler that first finds
\* the delay elapsed, with illumination_on_time between them; that run
\* disarms the channel and no later run looks at it again. Before that run
\* nothing is switched for it.
C17_ShortPulseOnce ==
    \A c \in Channels :
       (control_strobe[c] \/ illumination_on_time[c] # 0)
       => LET arms == Entries("arm", c)
              ons == Entries("on", c)
              offs == Entries("off", c)
              checks == Entries("check", c)
          IN (Cardinality(arms) = 1 /\ illumination_on_time[c] <= SHORT_PULSE_LIMIT)
             => LET due == DueChecks(c)
                IN IF due = {}
                   THEN /\ ons = {}
                        /\ offs = {}
                        /\ control_strobe[c]
                   ELSE LET first == FirstDue(c)
                        IN /\ ons = { first + 1 }
                           /\ offs = { first + 2 }
                           /\ pulses[first + 1].at = pulses[first].at
                           /\ pulses[first + 2].at =
                                  pulses[first + 1].at + illumination_on_time[c]
                           /\ \A i \in checks : i <= first
                           /\ ~control_strobe[c]
                           /\ strobe_output_level[c] = LOW

\* channel 3 armed with 10 ms after a delay of 20 ms: looked at before the
\* delay had elapsed, pulsed at 20 ms, and the timer has fired since
C17_Witness ==
    /\ ArmedOnce(3)
    /\ illumination_on_time[3] = 10000
    /\ strobe_delay[3] = 20000
    /\ Cardinality(Entries("check", 3)) = 2
    /\ Cardinality(Entries("on", 3)) = 1
    /\ Cardinality(Entries("off", 3)) = 1
    /\ pulses[Len(pulses)].what = "tick"
    /\ ~control_strobe[3]

\* pulses longer than 30 ms
LongPulse(c) == illumination_on_time[c] > SHORT_PULSE_LIMIT

\* the run of the handler entry i of the history belongs to: the last "tick"
\* entry before it
TickOf(i) ==
    CHOOSE k \in 1..i :
       /\ pulses[k].what = "tick"
       /\ \A j \in (k + 1)..i : pulses[j].what # "tick"

\* C18 as stated: a channel armed once with a pulse longer than 30 ms is
\* switched on in the first run of the handler that finds the delay elapsed
\* and is switched off in a later run, never in the run that switched it on.
C18_OffAtLaterTick ==
    \A c \in Channels :
       (ArmedOnce(c) /\ LongPulse(c))
       => /\ \A i \in Entries("on", c) : i = FirstDue(c) + 1
          /\ \A i \in Entries("on", c), j \in Entries("off", c) :
                TickOf(j) > TickOf(i)

\* C19 as stated: what the handler does for another channel neither delays
\* nor cuts short the pulse of a channel: a channel is switched on at the
\* time the run that finds it due was entered, and while a channel is HIGH
\* no other channel has switched the illumination off since it was switched on.
C19_ChannelsIndependent ==
    \A c \in Channels :
       /\ \A i \in Entries("on", c) : pulses[i].at = pulses[TickOf(i)].at
       /\ strobe_output_level[c] = HIGH
          => \A i \in Entries("on", c), j \in 1..Len(pulses) :
                (j > i /\ pulses[j].what = "off") => pulses[j].by \in {c, -1}

\* the step was a run of the strobe timer handler
HandlerRan ==
    /\ Len(pulses') > Len(pulses)
    /\ pulses'[Len(pulses) + 1].what = "tick"

\* C20: a step of the main loop (a command handled, RESET among them, the
\* illumination switched, a channel armed) leaves strobe_output_level and
\* strobe_on as they are and clears no control_strobe; a run of the strobe
\* timer handler leaves strobe_delay, illumination_on_time and
\* timestamp_trigger_rising_edge as they are and sets no control_strobe.
C20_SingleWriter ==
    [][ IF HandlerRan
        THEN /\ strobe_delay' = strobe_delay
             /\ illumination_on_time' = illumination_on_time
             /\ timestamp_trigger_rising_edge' = timestamp_trigger_rising_edge
             /\ \A c \in Channels : control_strobe'[c] => control_strobe[c]
        ELSE /\ strobe_output_level' = strobe_output_level
             /\ strobe_on' = strobe_on
             /\ \A c \in Channels : control_strobe[c] => control_strobe'[c]
      ]_vars

\* channel 0 armed for 40 ms, then a RESET handled, and the handler has
\* switched the channel on: it is still armed and HIGH after the RESET
C20_Witness ==
    /\ units = << EventOf("arm", << 0 >>), EventOf("command", << 2, CMD_RESET >>) >>
    /\ Len(serial_tx) = 1
    /\ Entries("on", 0) # {}
    /\ control_strobe[0]
    /\ strobe_output_level[0] = HIGH
    /\ illumination_on_time[0] = 40000
    /\ illumination_is_on

---------------------------------------------------------------------------
(* The TTL-only build at work *)

\* an 8-byte command as the host builds it
TtlCommand(command_id, command_type, data) ==
    LET head == << command_id, command_type >> \o data
    IN head \o << crc8ccitt(ArrayOf(head), CMD_LENGTH - 1) >>

\* the last byte of a command damaged on the line
TtlDamaged(frame) == [frame EXCEPT ![CMD_LENGTH] = BitXor(@, 1)]

\* what the host writes: commands without a handler, commands with one, a
\* damaged command, and three stray bytes
TtlUnits ==
    { [kind |-> "unregistered", bytes |-> TtlCommand(21, MOVE_X, << 0, 0, 1, 0, 0 >>)],
      [kind |-> "unregistered", bytes |-> TtlCommand(22, SET_TRIGGER_MODE, << 1, 0, 0, 0, 0 >>)],
      [kind |-> "unregistered", bytes |-> TtlCommand(23, 19, << 0, 0, 0, 0, 0 >>)],
      [kind |-> "registered",
       bytes |-> TtlCommand(31, SET_ILLUMINATION,
                            << ILLUMINATION_SOURCE_488NM, 18, 52, 0, 0 >>)],
      [kind |-> "registered", bytes |-> TtlCommand(32, TURN_ON_ILLUMINATION, << 0, 0, 0, 0, 0 >>)],
      [kind |-> "registered", bytes |-> TtlCommand(33, TURN_OFF_ILLUMINATION, << 0, 0, 0, 0, 0 >>)],
      [kind |-> "registered",
       bytes |-> TtlCommand(34, SET_ILLUMINATION_INTENSITY_FACTOR, << 50, 0, 0, 0, 0 >>)],
      [kind |-> "registered",
       bytes |-> TtlCommand(35, SET_DAC80508_REFDIV_GAIN, << 1, 128, 0, 0, 0 >>)],
      [kind |-> "registered",
       bytes |-> TtlCommand(36, ANALOG_WRITE_ONBOARD_DAC, << 7, 1, 2, 0, 0 >>)],
      [kind |-> "registered", bytes |-> TtlCommand(37, INITIALIZE, << 0, 0, 0, 0, 0 >>)],
      [kind |-> "registered", bytes |-> TtlCommand(38, RESET, << 0, 0, 0, 0, 0 >>)],
      [kind |-> "damaged",
       bytes |-> TtlDamaged(TtlCommand(41, TURN_ON_ILLUMINATION, << 0, 0, 0, 0, 0 >>))],
      [kind |-> "stray", bytes |-> << 1, 2, 3 >>] }

\* what the host goes on with after its first unit
TtlFollowUps ==
    { u \in TtlUnits : u.kind = "damaged" \/ u.bytes[1] \in {21, 32} }

\* the host writes one unit; it has written all it writes before the
\* firmware reads the first byte or sends the first reply
TtlHostWrite ==
    /\ Len(ttl_host.units) < MaxUnits
    /\ ttl.trace = << >>
    /\ \E u \in IF ttl_host.units = << >> THEN TtlUnits ELSE TtlFollowUps :
          ttl_host' = [units |-> Append(ttl_host.units, u),
                       wire |-> ttl_host.wire \o u.bytes]
    /\ UNCHANGED << ttl, protocolVars, strobeVars >>

\* the main loop calls process_serial_message() when the first MaxChunk
\* bytes the host wrote, or all of them, have arrived
TtlProcess ==
    /\ ttl_host.wire # << >>
    /\ \E n \in { Len(ttl_host.wire),
                  IF Len(ttl_host.wire) < MaxChunk THEN Len(ttl_host.wire) ELSE MaxChunk } :
          /\ LET arrived == [ttl EXCEPT !.serial_rx = @ \o SubSeq(ttl_host.wire, 1, n)]
             IN ttl' = process_serial_message(arrived)
          /\ ttl_host' = [ttl_host EXCEPT
                             !.wire = SubSeq(@, n + 1, Len(ttl_host.wire))]
    /\ UNCHANGED << protocolVars, strobeVars >>

\* the main loop calls send_position_update() with the interval just
\* reached or just exceeded; the counter is kept as of its last reset, the
\* time passed since then is what the call finds in it
TtlSendUpdate ==
    /\ Len(ttl.serial_tx) < MaxEvents
    /\ \E us \in { interval_send_pos_update, interval_send_pos_update + 1 } :
          LET after == send_position_update([ttl EXCEPT !.us_since_last_pos_update = us])
          IN ttl' = [after EXCEPT !.us_since_last_pos_update = 0]
    /\ UNCHANGED << ttl_host, protocolVars, strobeVars >>

NextTtl == TtlHostWrite \/ TtlProcess \/ TtlSendUpdate

SpecTtl == Init /\ [][NextTtl]_vars

\* the entries of the history at which an 8-byte frame was complete
TtlFrames == { i \in 1..Len(ttl.trace) : ttl.trace[i].checked }

\* the entries that are replies
TtlReplies == { i \in 1..Len(ttl.trace) : ttl.trace[i].kind = "reply" }

\* the frame completed at entry i carries its own CRC-8
TtlCrcValid(i) ==
    crc8ccitt(ArrayOf(ttl.trace[i].frame), CMD_LENGTH - 1) = ttl.trace[i].frame[CMD_LENGTH]

\* the frame completed at entry i is CRC-valid and its command_type has no
\* handler in cmd_map
TtlUnregistered(i) ==
    /\ i \in TtlFrames
    /\ TtlCrcValid(i)
    /\ cmd_map[ttl.trace[i].frame[2]] = NULL

\* reply j is the first reply after entry i
TtlNextReply(i, j) ==
    /\ j \in TtlReplies
    /\ j > i
    /\ \A k \in TtlReplies : k > i => j <= k

\* C21 as stated: a CRC-valid frame without a handler runs callback_default,
\* changes no illumination variable, pin or DAC register, and the next reply
\* carries its command_id with COMPLETED_WITHOUT_ERRORS.
C21_NextReplyAcks ==
    \A i \in TtlFrames :
       TtlUnregistered(i)
       => /\ ttl.trace[i].called = "callback_default"
          /\ ~ttl.trace[i].changed
          /\ \A j \in TtlReplies :
                TtlNextReply(i, j)
                => /\ ttl.trace[j].reply[1] = ttl.trace[i].frame[1]
                   /\ ttl.trace[j].reply[2] = COMPLETED_WITHOUT_ERRORS

\* C21, amended: the same, for the next reply when no further 8-byte frame
\* was completed before it; a frame completed in between replaces the
\* command_id (and, if its checksum fails, the status) the reply carries.
C21_DefaultHandlerAcks ==
    \A i \in TtlFrames :
       TtlUnregistered(i)
       => /\ ttl.trace[i].called = "callback_default"
          /\ ~ttl.trace[i].changed
          /\ \A j \in TtlReplies :
                (TtlNextReply(i, j) /\ \A k \in TtlFrames : ~(i < k /\ k < j))
                => /\ ttl.trace[j].reply[1] = ttl.trace[i].frame[1]
                   /\ ttl.trace[j].reply[2] = COMPLETED_WITHOUT_ERRORS

\* the illumination switched on, then MOVE_X (no handler) with command_id 21
\* handled and acknowledged by the reply that follows
C21_Witness ==
    /\ ttl.illumination_is_on
    /\ \E i \in TtlFrames, j \in TtlReplies :
          /\ TtlUnregistered(i)
          /\ ttl.trace[i].frame[2] = MOVE_X
          /\ TtlNextReply(i, j)
          /\ ttl.trace[j].reply[1] = 21
          /\ ttl.trace[j].reply[2] = COMPLETED_WITHOUT_ERRORS

\* the bytes discarded unread up to entry n of the history
RECURSIVE TtlDiscarded(_)
TtlDiscarded(n) == IF n = 0 THEN 0 ELSE TtlDiscarded(n - 1) + ttl.trace[n].flushed

\* the bytes the host has written
RECURSIVE TtlWritten(_)
TtlWritten(k) == IF k = 0 THEN 0 ELSE TtlWritten(k - 1) + Len(ttl_host.units[k].bytes)

\* C22: when the CRC-8 over the first 7 bytes of a completed frame differs
\* from its 8th byte, checksum_error is set, the receive index is 0, no
\* handler was called, the illumination, pins and DAC are as before, and
\* every byte that had arrived behind the frame is discarded: the serial
\* input is empty after it, and the bytes read and the bytes discarded
\* together are the bytes that arrived.
C22_BadCrcFlushes ==
    \A i \in TtlFrames :
       ~TtlCrcValid(i)
       => /\ ttl.trace[i].error
          /\ ttl.trace[i].ptr = 0
          /\ ttl.trace[i].called = "none"
          /\ ~ttl.trace[i].changed
          /\ ttl.trace[i].left = 0
          /\ TtlWritten(Len(ttl_host.units)) =
                 Len(ttl_host.wire) + Len(ttl.serial_rx) + TtlDiscarded(Len(ttl.trace))
                 + Cardinality({ k \in 1..Len(ttl.trace) : ttl.trace[k].kind = "byte" })

\* a damaged TURN_ON_ILLUMINATION and a whole further command behind it
\* arrived together: flagged, eight further bytes discarded, nothing switched on
C22_Witness ==
    /\ Len(ttl.trace) = CMD_LENGTH
    /\ CMD_LENGTH \in TtlFrames
    /\ ~TtlCrcValid(CMD_LENGTH)
    /\ ttl.trace[CMD_LENGTH].frame[2] = TURN_ON_ILLUMINATION
    /\ ttl.trace[CMD_LENGTH].flushed = CMD_LENGTH
    /\ ttl.checksum_error
    /\ ~ttl.illumination_is_on
    /\ ttl.serial_rx = << >>
    /\ ttl_host.wire = << >>

\* the frames completed before entry j of the history
TtlFramesBefore(j) == { i \in TtlFrames : i < j }

\* the last of them
TtlLastFrame(j) == CHOOSE i \in TtlFramesBefore(j) : \A k \in TtlFramesBefore(j) : k <= i

\* C23: a reply has status CMD_CHECKSUM_ERROR exactly when the last 8-byte
\* frame completed before it failed its CRC check: every reply after a
\* failed frame reports the error until a CRC-valid frame is completed, and
\* replies after that frame report COMPLETED_WITHOUT_ERRORS.
C23_ErrorUntilValidFrame ==
    /\ \A i \in TtlFrames : ttl.trace[i].error = ~TtlCrcValid(i)
    /\ \A j \in TtlReplies :
          ttl.trace[j].reply[2] =
             IF TtlFramesBefore(j) # {} /\ ~TtlCrcValid(TtlLastFrame(j))
             THEN CMD_CHECKSUM_ERROR
             ELSE COMPLETED_WITHOUT_ERRORS

\* a damaged frame, a reply reporting the checksum error, then a valid
\* frame and a reply reporting completion
C23_Witness ==
    /\ Len(ttl.serial_tx) = 2
    /\ ttl.serial_tx[1][2] = CMD_CHECKSUM_ERROR
    /\ ttl.serial_tx[2][2] = COMPLETED_WITHOUT_ERRORS
    /\ Cardinality(TtlFrames) = 2
    /\ ttl.trace[Len(ttl.trace)].kind = "reply"
    /\ ~ttl.checksum_error

\* the command codes init_callbacks registers a handler for, each with its
\* handler
Registered ==
    { << TURN_ON_ILLUMINATION, "callback_turn_on_illumination" >>,
      << TURN_OFF_ILLUMINATION, "callback_turn_off_illumination" >>,
      << SET_ILLUMINATION, "callback_set_illumination" >>,
      << SET_ILLUMINATION_INTENSITY_FACTOR, "callback_set_illumination_intensity_factor" >>,
      << SET_DAC80508_REFDIV_GAIN, "callback_set_dac_gain" >>,
      << ANALOG_WRITE_ONBOARD_DAC, "callback_analog_write_dac" >>,
      << INITIALIZE, "callback_initialize" >>,
      << RESET, "callback_reset" >> }

\* the command codes are pairwise distinct and lie in 0..255; cmd_map has an
\* entry for every byte; after init_callbacks every registered code still
\* has its own handler and no other entry has one
TableWellFormed ==
    /\ \A i, j \in 1..Len(CommandCodes) :
          i # j => CommandCodes[i] # CommandCodes[j]
    /\ \A i \in 1..Len(CommandCodes) : CommandCodes[i] \in 0..255
    /\ DOMAIN cmd_map = 0..255
    /\ \A r \in Registered : cmd_map[r[1]] = r[2]
    /\ Cardinality({ t \in DOMAIN cmd_map : cmd_map[t] # NULL }) = Cardinality(Registered)

\* C24: the command codes are pairwise distinct and lie in 0..255, so that
\* every command_type byte indexes cmd_map in bounds and no registration
\* overwrites another; and a CRC-valid frame calls the handler registered
\* for its command_type, or the default.
C24_CodesIndexTable ==
    /\ TableWellFormed
    /\ \A i \in TtlFrames :
          TtlCrcValid(i)
          => ttl.trace[i].called =
                IF \E r \in Registered : r[1] = ttl.trace[i].frame[2]
                THEN (CHOOSE r \in Registered : r[1] = ttl.trace[i].frame[2])[2]
                ELSE "callback_default"

\* INITIALIZE handled by callback_initialize, the DAC gain written, and a
\* second command handled after it
C24_Witness ==
    /\ \E i \in TtlFrames :
          /\ ttl.trace[i].frame[2] = INITIALIZE
          /\ ttl.trace[i].called = "callback_initialize"
    /\ DAC8050x_GAIN_ADDR \in DOMAIN ttl.dac
    /\ Cardinality(TtlFrames) = 2

\* the bytes read up to and including entry i of the history
TtlBytesRead(i) ==
    Cardinality({ k \in 1..i : ttl.trace[k].kind = "byte" })

\* C25: the receive index is in 0..7 after every byte; a frame is checked
\* on every eighth byte read and on no other (bytes discarded by a flush
\* are not read), a handler is called only there; and every reply is 24
\* bytes whose last byte is the CRC-8 of the 23 before it.
C25_FixedLength ==
    /\ ttl.buffer_rx_ptr \in 0..(CMD_LENGTH - 1)
    /\ \A i \in 1..Len(ttl.trace) :
          IF ttl.trace[i].kind = "byte"
          THEN /\ ttl.trace[i].ptr = TtlBytesRead(i) % CMD_LENGTH
               /\ ttl.trace[i].checked = (TtlBytesRead(i) % CMD_LENGTH = 0)
               /\ (ttl.trace[i].called # "none" => ttl.trace[i].checked)
          ELSE /\ Len(ttl.trace[i].reply) = MSG_LENGTH
               /\ ttl.trace[i].reply[MSG_LENGTH] =
                      crc8ccitt(ArrayOf(ttl.trace[i].reply), MSG_LENGTH - 1)
    /\ \A n \in 1..Len(ttl.serial_tx) : Len(ttl.serial_tx[n]) = MSG_LENGTH

\* three stray bytes and a command: the frame is checked on the eighth byte
\* read, five bytes into the command, three bytes of it wait for the next
\* frame, and a reply has gone out
C25_Witness ==
    /\ Len(ttl_host.units) = 2
    /\ ttl_host.units[1].kind = "stray"
    /\ ttl_host.units[2].kind = "registered"
    /\ ttl_host.wire = << >>
    /\ ttl.buffer_rx_ptr = 3
    /\ Cardinality(TtlFrames) = 1
    /\ Len(ttl.serial_tx) = 1
    /\ ttl.serial_tx[1][2] = CMD_CHECKSUM_ERROR

---------------------------------------------------------------------------
(* C26: header scanning, protocol_v2.cpp:80-97 *)

\* the entry before i left the same counts of dispatches and responses
SameCounts(i) ==
    /\ log[i].ndisp = (IF i = 1 THEN 0 ELSE log[i - 1].ndisp)
    /\ log[i].nsent = SentBefore(i)

\* C26: in WAIT_HEADER_0 a byte other than 0xAA changes nothing; in
\* WAIT_HEADER_1 0xBB leads to WAIT_LENGTH_0, 0xAA keeps WAIT_HEADER_1 and
\* any other byte leads back to WAIT_HEADER_0; 0xAA followed by a frame is
\* framed from the frame's own 0xAA, and the frame is dispatched.
C26_HeaderScan ==
    /\ \A i \in 1..Len(log) :
          LET e == log[i]
          IN /\ e.pre = "RX_WAIT_HEADER_0" /\ e.byte # PACKET_HEADER_0
                  => e.post = "RX_WAIT_HEADER_0" /\ ~e.stored /\ SameCounts(i)
             /\ e.pre = "RX_WAIT_HEADER_1"
                  => /\ e.post = (IF e.byte = PACKET_HEADER_1 THEN "RX_WAIT_LENGTH_0"
                                  ELSE IF e.byte = PACKET_HEADER_0 THEN "RX_WAIT_HEADER_1"
                                  ELSE "RX_WAIT_HEADER_0")
                     /\ ~e.stored /\ SameCounts(i)
    /\ \A k \in 1..(Len(units) - 1) :
          (/\ units[k] = GarbageUnit(<< PACKET_HEADER_0 >>)
           /\ units[k + 1].kind = "good"
           /\ UnitRead(k + 1)
           /\ log[UnitStart(k)].pre = "RX_WAIT_HEADER_0")
          => LET a == UnitStart(k + 1)
                 b == UnitEnd(k + 1)
             IN /\ log[a].pre = "RX_WAIT_HEADER_1" /\ log[a].post = "RX_WAIT_HEADER_1"
                /\ log[a + 1].post = "RX_WAIT_LENGTH_0"
                /\ \E d \in 1..Len(dispatched) :
                      /\ DispatchedIn(a, b) = {d}
                      /\ dispatched[d].at = b
                      /\ dispatched[d].payload = units[k + 1].payload

\* 0xAA, then the frame of GET_STATE, all read: the frame was dispatched
C26_Witness ==
    /\ units = << GarbageUnit(<< PACKET_HEADER_0 >>), GoodUnit(<< 17, CMD_GET_STATE >>) >>
    /\ UnitRead(2)
    /\ log[2].pre = "RX_WAIT_HEADER_1" /\ log[2].byte = PACKET_HEADER_0
    /\ Len(dispatched) = 1

---------------------------------------------------------------------------
(* C27: one byte per transition, protocol_v2.cpp:76-150 *)

\* the bytes of the first k units, as the host wrote them
RECURSIVE UnitBytes(_)
UnitBytes(k) == IF k = 0 THEN << >> ELSE UnitBytes(k - 1) \o units[k].bytes

\* byte i ended a frame whose CRC did not match
CrcMismatchAt(i) ==
    /\ i \in 2..Len(log)
    /\ log[i].pre = "RX_WAIT_CRC_1"
    /\ log[i].ndisp = log[i - 1].ndisp

\* C27: every byte written is read once, in order, by one transition that
\* starts where the one before ended; the byte that aborts a frame (the
\* second byte of an invalid length, the last CRC byte of a frame whose CRC
\* does not match) leaves the receiver in WAIT_HEADER_0 and the next byte
\* is the first one looked at as a header byte: 0xBB after an aborting
\* 0xAA starts nothing.
C27_OneBytePerTransition ==
    /\ Fed \o serial_rx = UnitBytes(Len(units))
    /\ \A i \in 1..Len(log) :
          /\ log[i].pre = (IF i = 1 THEN "RX_WAIT_HEADER_0" ELSE log[i - 1].post)
          /\ (InvalidLengthAt(i) \/ CrcMismatchAt(i))
                => /\ log[i].post = "RX_WAIT_HEADER_0"
                   /\ i < Len(log) /\ log[i + 1].byte # PACKET_HEADER_0
                         => log[i + 1].post = "RX_WAIT_HEADER_0"

\* a frame whose CRC ends in 0xAA without matching, then 0xBB and the rest
\* of a valid frame, all read: nothing was dispatched
C27_Witness ==
    /\ Len(units) = 2
    /\ units[1].kind = "badcrc"
    /\ units[2] = GarbageUnit(Tail(FrameOf(<< 17, CMD_GET_STATE >>)))
    /\ serial_rx = << >>
    /\ CrcMismatchAt(UnitEnd(1))
    /\ log[UnitEnd(1)].byte = PACKET_HEADER_0
    /\ log[UnitEnd(1) + 1].byte = PACKET_HEADER_1
    /\ dispatched = << >>

---------------------------------------------------------------------------
(* C28: the receiver always returns to header scanning, protocol_v2.cpp:99-149 *)

\* the most bytes a frame takes from its first length byte on
MaxFrameTail == 2 + PACKET_MAX_PAYLOAD + 2

\* C28: the byte read in WAIT_CRC_1 leaves the receiver in WAIT_HEADER_0,
\* dispatched or not; a byte read in any state from WAIT_LENGTH_0 on is
\* followed by a return to WAIT_HEADER_0 within 2 + 506 + 2 bytes, itself
\* included, whatever the bytes are.
C28_ReturnsToScanning ==
    /\ \A i \in 1..Len(log) :
          log[i].pre = "RX_WAIT_CRC_1" => log[i].post = "RX_WAIT_HEADER_0"
    /\ \A i \in 1..(Len(log) - MaxFrameTail + 1) :
          log[i].pre \notin {"RX_WAIT_HEADER_0", "RX_WAIT_HEADER_1"}
          => \E j \in i..(i + MaxFrameTail - 1) : log[j].post = "RX_WAIT_HEADER_0"

\* a frame of 506 payload bytes read: scanning again after exactly 510
\* bytes from the first length byte, not before, and the frame dispatched
C28_Witness ==
    /\ Len(units) = 1
    /\ Len(units[1].payload) = PACKET_MAX_PAYLOAD
    /\ serial_rx = << >>
    /\ log[3].pre = "RX_WAIT_LENGTH_0"
    /\ \A j \in 3..(MaxFrameTail + 1) : log[j].post # "RX_WAIT_HEADER_0"
    /\ log[MaxFrameTail + 2].post = "RX_WAIT_HEADER_0"
    /\ log[MaxFrameTail + 2].pre = "RX_WAIT_CRC_1"
    /\ log[MaxFrameTail + 2].ndisp = 1

---------------------------------------------------------------------------
(* C29: no state carried from one frame to the next, protocol_v2.cpp:99-149, 34-38 *)

\* unit k was read from WAIT_HEADER_0 on, and the receiver went through the
\* states, and made the process_command calls, that the receiver
\* protocol_v2_init leaves makes of the same bytes
AsIfFresh(k) ==
    LET a == UnitStart(k)
        n == Len(units[k].bytes)
        f == RxLoop(FreshMachine(units[k].bytes), n)
        before == IF a = 1 THEN 0 ELSE log[a - 1].ndisp
    IN /\ \A j \in 1..n :
             /\ log[a + j - 1].pre = f.log[j].pre
             /\ log[a + j - 1].post = f.log[j].post
             /\ log[a + j - 1].ndisp - before = f.log[j].ndisp
       /\ \A d \in 1..Len(f.dispatched) :
             /\ dispatched[before + d].at = f.dispatched[d].at + a - 1
             /\ dispatched[before + d].payload = f.dispatched[d].payload
             /\ dispatched[before + d].length = f.dispatched[d].length

\* C29: whatever was read before, bytes read from WAIT_HEADER_0 on are
\* framed, accepted or discarded, and dispatched with the payload, exactly
\* as by a receiver that has read nothing yet: the length, the payload
\* count, the payload bytes and the CRC a frame left behind decide nothing.
C29_FramesIndependent ==
    \A k \in 1..Len(units) :
        UnitRead(k) /\ log[UnitStart(k)].pre = "RX_WAIT_HEADER_0" => AsIfFresh(k)

\* a frame of three payload bytes, then a frame of one: the second was
\* dispatched with its one byte while the buffer still holds the rest of
\* the first payload and the length is that of the second frame
C29_Witness ==
    /\ units = << GoodUnit(<< 20, CMD_SET_ILLUMINATION, PACKET_HEADER_1 >>),
                  GoodUnit(<< 7 >>) >>
    /\ serial_rx = << >>
    /\ Len(dispatched) = 2
    /\ dispatched[2].payload = << 7 >>
    /\ rx_buffer[0] = 7 /\ rx_buffer[1] = CMD_SET_ILLUMINATION
    /\ rx_buffer[2] = PACKET_HEADER_1
    /\ rx_payload_length = 1

---------------------------------------------------------------------------
(* C30: reserved bytes, protocol_v2.cpp:158-235, protocol_v2.h:167-203 *)

\* C30: in every response written, as a structure and as the 78 bytes on
\* the wire, the error_code and reserved byte of each axis (offsets 9 and
\* 11 of its 12 bytes), the eight dac_values (bytes 52..67) and the three
\* trailing reserved bytes (75..77) are 0.
C30_ReservedZero ==
    \A n \in 1..Len(serial_tx) :
        LET r == serial_tx[n]
            b == SubSeq(packet(r), 5, 4 + RESPONSE_SIZE)
        IN /\ \A a \in Axes :
                 /\ r.axes[a].error_code = 0 /\ r.axes[a].reserved = 0
                 /\ b[4 + 12 * a + 10] = 0 /\ b[4 + 12 * a + 12] = 0
           /\ \A i \in 0..7 : r.dac_values[i] = 0
           /\ \A i \in 53..68 : b[i] = 0
           /\ \A i \in 0..2 : r.reserved[i] = 0
           /\ \A i \in 76..78 : b[i] = 0

\* an unknown command rejected while X is homing, Y is moving and W is homed
C30_Witness ==
    /\ Len(serial_tx) = 1
    /\ serial_tx[1].status = STATUS_REJECTED
    /\ serial_tx[1].error_code = ERR_INVALID_CMD
    /\ serial_tx[1].axes[0].state = AXIS_HOMING
    /\ serial_tx[1].axes[1].state = AXIS_MOVING
    /\ serial_tx[1].axes[3].homed = 1
    /\ packet(serial_tx[1])[5 + 2] = ERR_INVALID_CMD

---------------------------------------------------------------------------
(* C31..C33: the strobe channels, functions.cpp:191-197, 351-387 *)

C32_HighOnlyWhileArmed ==
    /\ [](\A c \in Channels : strobe_output_level[c] = HIGH => control_strobe[c])
    /\ [][\A c \in Channels :
             illumination_on_time[c] <= SHORT_PULSE_LIMIT
             => strobe_output_level'[c] = strobe_output_level[c]]_vars

\* channel 0 armed for 40 ms is HIGH and armed while channel 1, armed for
\* 10 ms, has had its pulse and is disarmed and LOW
C32_Witness ==
    /\ LongPulse(0) /\ strobe_output_level[0] = HIGH /\ control_strobe[0]
    /\ Entries("arm", 1) # {} /\ illumination_on_time[1] = 10000
    /\ Entries("on", 1) # {} /\ Entries("off", 1) # {}
    /\ ~control_strobe[1] /\ strobe_output_level[1] = LOW

\* every arming of channel c has had its pulse: the channel is disarmed and
\* LOW, the illumination was switched on for it once per arming and
\* switched off for it after each time it was switched on
PulseDone(c) ==
    /\ ~control_strobe[c]
    /\ strobe_output_level[c] = LOW
    /\ LET arms == Entries("arm", c)
           ons == Entries("on", c)
           offs == Entries("off", c)
       IN /\ arms # {}
          /\ Cardinality(ons) = Cardinality(arms)
          /\ Cardinality(offs) = Cardinality(arms)
          /\ \A i \in ons : \E j \in offs : j > i

\* C33: with the strobe timer firing again and again, whatever is armed is
\* served: again and again a state is reached in which every channel that
\* was armed is disarmed and LOW with the illumination switched on and
\* then off for it, whatever its pulse length and delay.
C33_EventuallyDisarmed ==
    []<>(\A c \in Channels : Entries("arm", c) # {} => PulseDone(c))

\* channel 0 armed for 10 ms and channel 1 for 40 ms after a delay of
\* 20 ms: both have had their pulse
C33_Witness ==
    /\ illumination_on_time[0] = 10000 /\ PulseDone(0)
    /\ illumination_on_time[1] = 40000 /\ strobe_delay[1] = 20000 /\ PulseDone(1)

---------------------------------------------------------------------------
(* C34: the receive buffer, protocol_v2.cpp:104-139, protocol_v2.h:29-34 *)

\* C34: while the payload or the CRC of a frame is collected the length is
\* in 1..506 and the count of payload bytes stored does not exceed it;
\* while the payload is collected the count is below the length, so the
\* next byte is stored at an index below 506, inside the 512-byte buffer;
\* the length + 2 bytes the CRC is taken over fit the 508-byte scratch array.
C34_WithinBuffer ==
    /\ DOMAIN rx_buffer = 0..(RX_BUFFER_SIZE - 1)
    /\ rx_state \in {"RX_WAIT_PAYLOAD", "RX_WAIT_CRC_0", "RX_WAIT_CRC_1"}
          => /\ rx_payload_length \in 1..PACKET_MAX_PAYLOAD
             /\ rx_payload_received \in 0..rx_payload_length
             /\ rx_payload_length + 2 <= PACKET_MAX_PAYLOAD + 2
             /\ PACKET_MAX_PAYLOAD <= RX_BUFFER_SIZE
    /\ rx_state = "RX_WAIT_PAYLOAD"
          => /\ rx_payload_received < rx_payload_length
             /\ rx_payload_received < PACKET_MAX_PAYLOAD
             /\ rx_payload_received \in DOMAIN rx_buffer
    /\ rx_state \in {"RX_WAIT_CRC_0", "RX_WAIT_CRC_1"}
          => rx_payload_received = rx_payload_length

\* the last byte of a 506-byte payload has been stored at index 505 and
\* the first CRC byte read
C34_Witness ==
    /\ rx_state = "RX_WAIT_CRC_1"
    /\ rx_payload_length = PACKET_MAX_PAYLOAD
    /\ rx_payload_received = PACKET_MAX_PAYLOAD
    /\ Len(log) = 4 + PACKET_MAX_PAYLOAD + 1
    /\ rx_buffer[PACKET_MAX_PAYLOAD - 1] = log[4 + PACKET_MAX_PAYLOAD].byte
    /\ log[4 + PACKET_MAX_PAYLOAD].stored

---------------------------------------------------------------------------
(* C35, C36: the lasers of the TTL-only build *)

\* the number of illumination commands the host sends
MaxCommands == 4

\* the illumination commands of the host: two sources, on, off, and the two
\* commands that reset
LaserCommands ==
    { TtlCommand(51, SET_ILLUMINATION, << ILLUMINATION_SOURCE_488NM, 18, 52, 0, 0 >>),
      TtlCommand(52, SET_ILLUMINATION, << ILLUMINATION_SOURCE_638NM, 255, 255, 0, 0 >>),
      TtlCommand(53, TURN_ON_ILLUMINATION, << 0, 0, 0, 0, 0 >>),
      TtlCommand(54, TURN_OFF_ILLUMINATION, << 0, 0, 0, 0, 0 >>),
      TtlCommand(55, INITIALIZE, << 0, 0, 0, 0, 0 >>),
      TtlCommand(56, RESET, << 0, 0, 0, 0, 0 >>) }

\* the host writes its next command once the firmware has read the last
LaserHostWrite ==
    /\ Len(ttl_host.units) < MaxCommands
    /\ ttl_host.wire = << >>
    /\ \E bytes \in LaserCommands :
          ttl_host' = [units |-> Append(ttl_host.units,
                                        [kind |-> "registered", bytes |-> bytes]),
                       wire |-> bytes]
    /\ UNCHANGED << ttl, protocolVars, strobeVars >>

\* the main loop calls process_serial_message() when the command has arrived
LaserProcess ==
    /\ ttl_host.wire # << >>
    /\ ttl' = process_serial_message([ttl EXCEPT !.serial_rx = @ \o ttl_host.wire])
    /\ ttl_host' = [ttl_host EXCEPT !.wire = << >>]
    /\ UNCHANGED << protocolVars, strobeVars >>

NextLasers == LaserHostWrite \/ LaserProcess

SpecLasers == Init /\ [][NextLasers]_vars

\* the command_type bytes of the commands written so far
LaserTypes == [k \in 1..Len(ttl_host.units) |-> ttl_host.units[k].bytes[2]]

\* the laser outputs that are HIGH
LasersHigh == { pin \in DOMAIN ttl.pins : ttl.pins[pin] = HIGH }

\* C35: whenever illumination_is_on is false every laser output is LOW, and
\* whenever it is true no laser other than that of the selected source is
\* HIGH, after any sequence of SET_ILLUMINATION, TURN_ON_ILLUMINATION,
\* TURN_OFF_ILLUMINATION, INITIALIZE and RESET.
C35_LasersFollowState ==
    /\ ~ttl.illumination_is_on => LasersHigh = {}
    /\ ttl.illumination_is_on => LasersHigh \subseteq { LaserOf(ttl.illumination_source) }

\* the handler the last completed command ran
LastCalled ==
    IF TtlFrames = {} THEN "none"
    ELSE ttl.trace[CHOOSE i \in TtlFrames : \A k \in TtlFrames : k <= i].called

\* C36: once RESET or INITIALIZE has been processed, whatever the state it
\* was received in, all five laser outputs are LOW, illumination_is_on is
\* false, and illumination_source and illumination_intensity are 0.
C36_ResetSwitchesOff ==
    LastCalled \in {"callback_initialize", "callback_reset"}
        => /\ DOMAIN ttl.pins = LASER_405nm..LASER_730nm
           /\ LasersHigh = {}
           /\ ~ttl.illumination_is_on
           /\ ttl.illumination_source = 0
           /\ ttl.illumination_intensity = 0

\* two lasers were HIGH when RESET came (488 nm selected and on, then 638 nm
\* selected), and in another run INITIALIZE came with the illumination on
C36_Witness ==
    /\ LaserTypes \in { << SET_ILLUMINATION, TURN_ON_ILLUMINATION, SET_ILLUMINATION, RESET >>,
                        << SET_ILLUMINATION, TURN_ON_ILLUMINATION, SET_ILLUMINATION,
                           INITIALIZE >> }
    /\ ttl_host.units[1].bytes[3] = ILLUMINATION_SOURCE_488NM
    /\ ttl_host.units[3].bytes[3] = ILLUMINATION_SOURCE_638NM
    /\ ttl_host.wire = << >>
    /\ LastCalled \in {"callback_initialize", "callback_reset"}
    /\ LasersHigh = {}

---------------------------------------------------------------------------
(* C37..C39: the command_id of the replies and the chunks of the TTL-only
   build *)

\* C37: a reply sent when the last 8-byte frame completed before it was
\* CRC-valid carries byte 0 of that frame as its command_id, whatever the
\* command_type of the frame, RESET included.
C37_AckedWithOwnId ==
    \A j \in TtlReplies :
        TtlFramesBefore(j) # {} /\ TtlCrcValid(TtlLastFrame(j))
            => ttl.trace[j].reply[1] = ttl.trace[TtlLastFrame(j)].frame[1]

\* C38: a frame that fails its CRC check does not change the command_id of
\* the replies: a reply sent when the last 8-byte frame completed before it
\* failed the check carries the command_id that was in effect before the
\* last byte of that frame was read.
C38_IdOnlyFromValidFrames ==
    \A j \in TtlReplies :
        TtlFramesBefore(j) # {} /\ ~TtlCrcValid(TtlLastFrame(j))
            => ttl.trace[j].reply[1] = ttl.trace[TtlLastFrame(j) - 1].cmd_id

\* the frames of the commands a history shows dispatched, in their order
DispatchedFrames(trace) ==
    LET sel == SelectSeq(trace, LAMBDA e : e.checked /\ e.called # "none")
    IN [k \in 1..Len(sel) |-> sel[k].frame]

\* all the host has written
RECURSIVE TtlBytesOf(_)
TtlBytesOf(written) ==
    IF written = << >> THEN << >> ELSE Head(written).bytes \o TtlBytesOf(Tail(written))

TtlStream == TtlBytesOf(ttl_host.units)

\* the commands dispatched when the whole stream is there at the first call
\* of process_serial_message()
AllAtOnce ==
    DispatchedFrames(process_serial_message([TtlPowerOn EXCEPT !.serial_rx = TtlStream]).trace)

\* C39 as stated: once the whole stream has been read, the commands
\* dispatched are those dispatched when the stream arrives in one piece,
\* whether or not a frame of it fails its CRC check.
C39_ChunkIndependent ==
    ttl_host.wire = << >> => DispatchedFrames(ttl.trace) = AllAtOnce

\* C39: once the whole stream has been read, the commands dispatched when
\* it arrives in one piece are the first of those dispatched, in the same
\* order, and they are all of them when no frame failed its CRC check.
C39_SameUpToFailure ==
    ttl_host.wire = << >>
        => /\ Len(AllAtOnce) <= Len(DispatchedFrames(ttl.trace))
           /\ AllAtOnce = SubSeq(DispatchedFrames(ttl.trace), 1, Len(AllAtOnce))
           /\ (\A i \in TtlFrames : TtlCrcValid(i))
                 => DispatchedFrames(ttl.trace) = AllAtOnce

\* a damaged command and TURN_ON_ILLUMINATION behind it, read in chunks: the
\* damaged one was complete with nothing behind it to discard, and the
\* second was dispatched, which it is not when both arrive together
C39_Witness ==
    /\ Len(ttl_host.units) = 2
    /\ ttl_host.units[1].kind = "damaged"
    /\ ttl_host.units[2].bytes[2] = TURN_ON_ILLUMINATION
    /\ ttl_host.wire = << >>
    /\ \E i \in TtlFrames : ~TtlCrcValid(i) /\ ttl.trace[i].flushed = 0
    /\ AllAtOnce = << >>
    /\ DispatchedFrames(ttl.trace) = << ttl_host.units[2].bytes >>
    /\ ttl.illumination_is_on

====
